---------------------------- MODULE Spec2Model ----------------------------
(***************************************************************************)
(* A model of xpra's server-side client session source                     *)
(* (src/src/xpra/server/source/client_connection.py, class                 *)
(* ClientConnection).                                                      *)
(*                                                                         *)
(* Threads of execution:                                                   *)
(*   - the main (UI) thread runs close(), user_event() and the timer       *)
(*     callbacks, one handler at a time (main_pc);                         *)
(*   - a control thread calls send() / send_more() / send_async()          *)
(*     (send_pc);                                                          *)
(*   - the encoder thread appends bulk entries to packet_queue;            *)
(*   - the transport's writer thread calls next_packet() (np_pc).          *)
(* Each step of a thread is one atomic operation of the interpreter: an    *)
(* attribute read, a list append, a pop.                                   *)
(*                                                                         *)
(* Specifications:                                                         *)
(*   Spec      the packet scheduler and close()                            *)
(*   SpecIdle  the idle / grace timers, user_event() and close()           *)
(*   SpecBW    parse_hello() and update_bandwidth_limits()                 *)
(*   SpecAV    parse_hello() and the av-sync delay                         *)
(*   SpecHello parse_hello() and send_hello()                              *)
(*   SpecNotify  the notifications, send_hello() and close()               *)
(*   SpecRecompute  update_bandwidth_limits() and                          *)
(*             update_av_sync_delay_total() called again and again         *)
(***************************************************************************)
EXTENDS Integers, Sequences, FiniteSets

(***************************************************************************)
(* Bounds of the model.                                                    *)
(***************************************************************************)
\* packets (ordinary and bulk together) queued in one behaviour
MaxPackets == 3
\* calls of close() in one behaviour
MaxClose == 2
\* timer sources handed out by timeout_add in one behaviour
MaxSources == 6
\* invocations of each timer callback in one behaviour
MaxCallbacks == 3
\* the largest idle_timeout (seconds) a session is constructed with
MaxIdleTimeout == 200
\* window sources of a session
MaxWindows == 2

(***************************************************************************)
(* Program constants.                                                      *)
(***************************************************************************)
\* GRACE_PERCENT = envint("XPRA_GRACE_PERCENT", 90)
GRACE_PERCENT == 90
\* "grace duration is at least 10 seconds"
MIN_GRACE == 10
\* XPRA_IDLE_NOTIFICATION_ID (xpra.util)
XPRA_IDLE_NOTIFICATION_ID == 1

\* AV_SYNC_DELTA = envint("XPRA_AV_SYNC_DELTA", 0)
AV_SYNC_DELTA == 0

\* Python's None, for a packet payload and for a timer handle
None == 0
\* Python's None, for a pair of integers
NoPair == <<>>

VARIABLES
    \* ---- packet scheduler
    ordinary_packets,    \* self.ordinary_packets: list of (parts, synchronous, fail_cb, will_have_more)
    packet_queue,        \* self.packet_queue: deque of bulk entries
    encode_work_queue,   \* self.encode_work_queue: only the end-of-queue markers are recorded
    closed,              \* self.close_event.isSet()
    protocol,            \* self.protocol is not None
    signals,             \* number of protocol.source_has_more() calls
    next_id,             \* next payload identity
    appended_ord,        \* history: payloads appended to ordinary_packets, in order
    appended_bulk,       \* history: payloads appended to packet_queue, in order
    delivered,           \* history: non-None payloads returned by next_packet(), in order
    \* ---- main thread
    main_pc,             \* "idle", or the position inside close()
    close_calls,         \* number of close() calls started
    close_mark,          \* history: next_id as the close event was first set (None before)
    \* ---- control thread inside send()
    send_pc,             \* "idle" | "append"
    send_args,           \* the (synchronous, will_have_more) of the call in progress (the defaults when none is)
    \* ---- transport thread inside next_packet()
    np_pc,               \* "idle" | "ordinary" | "bulk" | "more"
    np_result,           \* the locals packet, start_send_cb, ..., will_have_more
    np_seen,             \* what this call has read so far
    np_calls,            \* whether next_packet() has returned at least once
    \* ---- idle / grace timers
    idle_timeout,        \* self.idle_timeout (seconds)
    idle_grace_duration, \* self.idle_grace_duration (seconds)
    idle_timer,          \* self.idle_timer: a source id or None
    idle_grace_timer,    \* self.idle_grace_timer: a source id or None
    sources,             \* the main loop's pending timeout sources
    next_source,         \* the next source id timeout_add returns
    idle,                \* self.idle
    user_event_seen,     \* history: whether the last user_event() called no_idle() / notify_close()
    idle_cb_calls,       \* invocations of idle_timeout_cb
    grace_cb_calls,      \* invocations of idle_grace_timeout_cb
    last_fired,          \* history: the source (id, callback, armed delay) that fired last
    last_op,             \* history: the last handler the main thread ran
    \* ---- notifications (as far as user_event() goes)
    notification_callbacks, \* self.notification_callbacks: nid -> user callback
    notify_call,         \* history: the last notify() / notify_close() call: what was called, nid, user_callback, return value
    send_notifications,
    suspended,
    hello_sent,
    \* ---- bandwidth
    BANDWIDTH_DETECTION, \* the module's setting XPRA_BANDWIDTH_DETECTION
    mmap_size,           \* self.mmap_size
    server_bandwidth_limit,
    bandwidth_limit,     \* self.bandwidth_limit: the hard limit
    soft_bandwidth_limit,
    avg_congestion_send_speed, \* self.statistics.avg_congestion_send_speed as of the last update
    bw_raised,           \* history: whether the last update_bandwidth_limits() raised ZeroDivisionError
    \* ---- av-sync
    av_sync,             \* self.av_sync
    av_sync_delay,
    av_sync_delta,
    av_sync_delay_total,
    encoder_latency,     \* get_sound_source_latency() as of the last recomputation
    \* ---- the window sources and the rest of the hello
    window_sources,      \* wid -> [suspended, window_dimensions, damage_pixels, bandwidth_limit, av_sync_delay]
    desktop_size,        \* self.desktop_size: <<w, h>> or NoPair
    client_caps,         \* history: the capabilities handed to the last parse_hello()
    repeated,            \* history: whether the last handler was a recomputation called again on the inputs of the one before it
    \* ---- the websocket upgrade (websocket.py)
    websocket            \* the request handler: [pc, request, trace, raised]

queueVars == <<ordinary_packets, packet_queue, signals, next_id, appended_ord,
               appended_bulk, delivered>>
closeVars == <<encode_work_queue, closed, protocol, main_pc, close_calls, close_mark>>
sendVars == <<send_pc, send_args>>
npVars == <<np_pc, np_result, np_seen, np_calls>>
timerVars == <<idle_timer, idle_grace_timer, sources, next_source>>
idleVars == <<idle_timeout, idle_grace_duration, idle, user_event_seen,
                   idle_cb_calls,
              grace_cb_calls, last_fired, last_op>>
notifyVars == <<notification_callbacks, notify_call, send_notifications, suspended,
                hello_sent>>

bwVars == <<BANDWIDTH_DETECTION, mmap_size, server_bandwidth_limit, bandwidth_limit,
            soft_bandwidth_limit, avg_congestion_send_speed, bw_raised>>
avVars == <<av_sync, av_sync_delay, av_sync_delta, av_sync_delay_total, encoder_latency>>
ctlVars == <<bwVars, avVars, window_sources, desktop_size, client_caps, repeated>>
wsVars == <<websocket>>

vars == <<queueVars, closeVars, sendVars, npVars, timerVars, idleVars, notifyVars,
          ctlVars, wsVars>>

(***************************************************************************)
(* Helpers.                                                                *)
(***************************************************************************)
Max(a, b) == IF a >= b THEN a ELSE b

Min(a, b) == IF a <= b THEN a ELSE b

IsPrefix(s, t) == Len(s) <= Len(t) /\ \A i \in 1..Len(s) : s[i] = t[i]

Ids(q) == [i \in 1..Len(q) |-> q[i].id]


(***************************************************************************)
(* The packet scheduler: send(), the encoder's appends, next_packet().     *)
(***************************************************************************)
\* faulty variant, used to test the properties: is_closed() that never reports the session closed
is_closed_never == FALSE

\* is_closed(): self.close_event.isSet()
is_closed == closed

\* the tuple next_packet() starts from (and returns when it pops nothing)
NoPacket == [packet |-> None, start_send_cb |-> None, end_send_cb |-> None,
             fail_cb |-> None, synchronous |-> TRUE, have_more |-> FALSE,
             will_have_more |-> FALSE]

\* what a call of next_packet() has read: the closed flag, the length of each
\* queue when tested (-1: not tested), the tier popped, the queues as the call
\* was entered, whether a queue was non-empty right after the pop, and the
\* value of next_id as the call was entered, after its pop and as it returned
NotSeen == [closed |-> FALSE, ord |-> -1, bulk |-> -1, popped |-> "none",
            call_ord |-> <<>>, call_bulk |-> <<>>, after_pop |-> FALSE,
            call_mark |-> 0, pop_mark |-> 0, ret_mark |-> 0]

\* the keyword arguments of send(), send_more() and send_async():
\* synchronous defaults to True, will_have_more to (not synchronous)
send_kwargs(method) ==
    CASE method = "send"       -> [synchronous |-> TRUE, will_have_more |-> FALSE]
      [] method = "send_more"  -> [synchronous |-> TRUE, will_have_more |-> TRUE]
      [] method = "send_async" -> [synchronous |-> FALSE, will_have_more |-> TRUE]

\* the entry send(*parts) appends: (parts, synchronous, fail_cb, will_have_more);
\* id tells apart two entries of the same parts
parts_entry(id, parts, kw) ==
    [id |-> id, parts |-> parts, synchronous |-> kw.synchronous, fail_cb |-> None,
     will_have_more |-> kw.will_have_more]

\* the entry of a packet whose parts do not matter
ordinary_entry(id, kw) == parts_entry(id, <<"packet">>, kw)

\* faulty variant, used to test the properties: the entry is appended and the
\* transport is not told
append_parts_silent(parts, kw) ==
    /\ ordinary_packets' = Append(ordinary_packets, parts_entry(next_id, parts, kw))
    /\ appended_ord' = Append(appended_ord, next_id)
    /\ next_id' = next_id + 1
    /\ signals' = signals

\* self.ordinary_packets.append(...) followed by p.source_has_more()
append_parts(parts, kw) ==
    /\ ordinary_packets' = Append(ordinary_packets, parts_entry(next_id, parts, kw))
    /\ appended_ord' = Append(appended_ord, next_id)
    /\ next_id' = next_id + 1
    /\ signals' = signals + 1

append_ordinary(kw) == append_parts(<<"packet">>, kw)

\* faulty variant, used to test the properties: send() that does not test its transport
has_protocol_always(p) == TRUE

\* send(): "p = self.protocol; if p:"
has_protocol(p) == p

\* send(): p = self.protocol; if p: ...
send_begin ==
    /\ send_pc = "idle"
    /\ next_id <= MaxPackets
    /\ IF has_protocol(protocol)
         THEN /\ \E method \in {"send", "send_more", "send_async"} :
                    send_args' = send_kwargs(method)
              /\ send_pc' = "append"
         ELSE UNCHANGED <<send_pc, send_args>>
    /\ UNCHANGED <<queueVars, closeVars, npVars, timerVars, idleVars, notifyVars, ctlVars, wsVars>>

\* send(): self.ordinary_packets.append(...); p.source_has_more()
send_append ==
    /\ send_pc = "append"
    /\ append_ordinary(send_args)
    /\ send_pc' = "idle"
    /\ send_args' = send_kwargs("send")
    /\ UNCHANGED <<packet_queue, appended_bulk, delivered>>
    /\ UNCHANGED <<closeVars, npVars, timerVars, idleVars, notifyVars, ctlVars, wsVars>>

\* a window source queues an encoded payload:
\* (packet, wid, pixels, start_send_cb, end_send_cb, fail_cb, will_have_more);
\* once close() has cleaned up the window sources, "all window sources will
\* have stopped queuing data"
queue_packet ==
    /\ ~closed
    /\ next_id <= MaxPackets
    /\ packet_queue' = Append(packet_queue,
          [id |-> next_id, start_send_cb |-> next_id, end_send_cb |-> next_id,
           fail_cb |-> next_id, will_have_more |-> FALSE])
    /\ appended_bulk' = Append(appended_bulk, next_id)
    /\ next_id' = next_id + 1
    /\ UNCHANGED <<ordinary_packets, signals, appended_ord, delivered>>
    /\ UNCHANGED <<closeVars, sendVars, npVars, timerVars, idleVars, notifyVars, ctlVars, wsVars>>

\* faulty variant, used to test the properties: the ordinary tier is never looked at
has_ordinary_never(q) == FALSE

\* "if len(self.ordinary_packets)>0"
has_ordinary(q) == Len(q) > 0

\* faulty variant, used to test the properties: the bulk tier is never looked at
has_bulk_never(q) == FALSE

\* "elif len(self.packet_queue)>0"
has_bulk(q) == Len(q) > 0

\* faulty variant, used to test the properties: pop() instead of pop(0): the newest entry is taken
pop_last(q) == <<q[Len(q)], SubSeq(q, 1, Len(q) - 1)>>

\* faulty variant, used to test the properties: q[0] instead of pop(0): the entry is read and left in the queue
pop_keep(q) == <<Head(q), q>>

\* list.pop(0) and deque.popleft(): the entry taken and the queue left
pop_first(q) == <<Head(q), Tail(q)>>

\* faulty variant, used to test the properties: have_more that forgets the bulk queue
have_more_ordinary_only(packet, ord, bulk) == packet # None /\ Len(ord) > 0

\* have_more = packet is not None and (len(ordinary_packets)>0 or len(packet_queue)>0)
have_more_flag(packet, ord, bulk) == packet # None /\ (Len(ord) > 0 \/ Len(bulk) > 0)

\* next_packet() is entered: the locals are set and is_closed() is read;
\* on a closed session the call returns at once
next_packet_begin ==
    /\ np_pc = "idle"
    /\ np_result' = NoPacket
    /\ np_seen' = [NotSeen EXCEPT !.closed = closed,
                                  !.call_ord = Ids(ordinary_packets),
                                  !.call_bulk = Ids(packet_queue),
                                  !.call_mark = next_id,
                                  !.pop_mark = next_id,
                                  !.ret_mark = next_id]
    /\ IF is_closed
         THEN np_pc' = "idle" /\ np_calls' = TRUE
         ELSE np_pc' = "ordinary" /\ UNCHANGED np_calls
    /\ UNCHANGED <<queueVars, closeVars, sendVars, timerVars, idleVars, notifyVars, ctlVars, wsVars>>

\* if len(self.ordinary_packets)>0: packet, synchronous, fail_cb, will_have_more = pop(0)
next_packet_ordinary ==
    /\ np_pc = "ordinary"
    /\ IF has_ordinary(ordinary_packets)
         THEN LET e == pop_first(ordinary_packets)[1]
                  rest == pop_first(ordinary_packets)[2]
              IN /\ ordinary_packets' = rest
                 /\ np_result' = [np_result EXCEPT !.packet = e.id,
                                     !.synchronous = e.synchronous,
                                     !.fail_cb = e.fail_cb,
                                     !.will_have_more = e.will_have_more]
                 /\ np_seen' = [np_seen EXCEPT !.ord = Len(ordinary_packets),
                                     !.popped = "ordinary",
                                     !.pop_mark = next_id,
                                     !.after_pop = Len(rest) > 0 \/ Len(packet_queue) > 0]
                 /\ np_pc' = "more"
         ELSE /\ np_seen' = [np_seen EXCEPT !.ord = 0]
              /\ np_pc' = "bulk"
              /\ UNCHANGED <<ordinary_packets, np_result>>
    /\ UNCHANGED <<packet_queue, signals, next_id, appended_ord, appended_bulk,
                   delivered, np_calls>>
    /\ UNCHANGED <<closeVars, sendVars, timerVars, idleVars, notifyVars, ctlVars, wsVars>>

\* elif len(self.packet_queue)>0:
\*     packet, _, _, start_send_cb, end_send_cb, fail_cb, will_have_more = popleft()
next_packet_bulk ==
    /\ np_pc = "bulk"
    /\ IF has_bulk(packet_queue)
         THEN LET e == pop_first(packet_queue)[1]
                  rest == pop_first(packet_queue)[2]
              IN /\ packet_queue' = rest
                 /\ np_result' = [np_result EXCEPT !.packet = e.id,
                                     !.start_send_cb = e.start_send_cb,
                                     !.end_send_cb = e.end_send_cb,
                                     !.fail_cb = e.fail_cb,
                                     !.will_have_more = e.will_have_more]
                 /\ np_seen' = [np_seen EXCEPT !.bulk = Len(packet_queue),
                                     !.popped = "bulk",
                                     !.pop_mark = next_id,
                                     !.after_pop = Len(ordinary_packets) > 0 \/ Len(rest) > 0]
         ELSE /\ np_seen' = [np_seen EXCEPT !.bulk = 0, !.pop_mark = next_id]
              /\ UNCHANGED <<packet_queue, np_result>>
    /\ np_pc' = "more"
    /\ UNCHANGED <<ordinary_packets, signals, next_id, appended_ord, appended_bulk,
                   delivered, np_calls>>
    /\ UNCHANGED <<closeVars, sendVars, timerVars, idleVars, notifyVars, ctlVars, wsVars>>

\* have_more is computed and the tuple is returned to the transport
next_packet_return ==
    /\ np_pc = "more"
    /\ np_result' = [np_result EXCEPT !.have_more =
                        have_more_flag(np_result.packet, ordinary_packets, packet_queue)]
    /\ delivered' = IF np_result.packet # None
                      THEN Append(delivered, [id |-> np_result.packet, kind |-> np_seen.popped])
                      ELSE delivered
    /\ np_seen' = [np_seen EXCEPT !.ret_mark = next_id]
    /\ np_pc' = "idle"
    /\ np_calls' = TRUE
    /\ UNCHANGED <<ordinary_packets, packet_queue, signals, next_id, appended_ord,
                   appended_bulk>>
    /\ UNCHANGED <<closeVars, sendVars, timerVars, idleVars, notifyVars, ctlVars, wsVars>>

(***************************************************************************)
(* The idle / grace timers.  A pending source of the main loop is          *)
(* [id, cb, delay, remaining] (milliseconds); a callback that returns      *)
(* None is removed from the main loop once it has run.                     *)
(***************************************************************************)
\* the values of idle_timeout (seconds) a session is constructed with
IdleTimeouts == (-1)..MaxIdleTimeout

\* faulty variant, used to test the properties: the grace duration without its 10 second floor
grace_duration_no_floor(timeout) == (timeout * (100 - GRACE_PERCENT)) \div 100

\* self.idle_grace_duration = max(10, int(self.idle_timeout*(100-GRACE_PERCENT)//100))
grace_duration(timeout) == Max(MIN_GRACE, (timeout * (100 - GRACE_PERCENT)) \div 100)

\* the timer fields of the session, as one value
Timers == [idle_timer |-> idle_timer, idle_grace_timer |-> idle_grace_timer,
           sources |-> sources, next_source |-> next_source]

NoTimers == [idle_timer |-> None, idle_grace_timer |-> None, sources |-> {},
             next_source |-> 1]

SetTimers(t) ==
    /\ idle_timer' = t.idle_timer
    /\ idle_grace_timer' = t.idle_grace_timer
    /\ sources' = t.sources
    /\ next_source' = t.next_source

\* timeout_add(delay, cb): a new pending source; its id is t.next_source
timeout_add(t, delay, cb) ==
    [t EXCEPT !.sources = @ \cup {[id |-> t.next_source, cb |-> cb,
                                   delay |-> delay, remaining |-> delay]},
              !.next_source = @ + 1]

\* source_remove(id)
source_remove(t, id) == [t EXCEPT !.sources = {s \in @ : s.id # id}]

\* faulty variant, used to test the properties: the idle delay with a wrong unit
idle_delay_short(timeout) == timeout * 100

\* the delay schedule_idle_timeout() arms: self.idle_timeout*1000
idle_delay(timeout) == timeout * 1000

\* faulty variant, used to test the properties: the grace delay without max(0, ...)
grace_delay_unclamped(timeout, grace) == (timeout - grace) * 1000

\* the delay schedule_idle_grace_timeout() arms:
\* grace = self.idle_timeout - self.idle_grace_duration; max(0, int(grace*1000))
grace_delay(timeout, grace) == Max(0, (timeout - grace) * 1000)

\* faulty variant, used to test the properties: the pending idle timer is not cancelled
schedule_idle_timeout_no_cancel(t, timeout) ==
    IF timeout > 0
      THEN [timeout_add(t, idle_delay(timeout), "idle_timedout")
               EXCEPT !.idle_timer = t.next_source]
      ELSE t

\* schedule_idle_timeout()
schedule_idle_timeout(t, timeout) ==
    LET t1 == IF t.idle_timer # None
                THEN [source_remove(t, t.idle_timer) EXCEPT !.idle_timer = None]
                ELSE t
    IN IF timeout > 0
         THEN [timeout_add(t1, idle_delay(timeout), "idle_timedout")
                  EXCEPT !.idle_timer = t1.next_source]
         ELSE t1

\* schedule_idle_grace_timeout()
schedule_idle_grace_timeout(t, timeout, grace, isclosed) ==
    LET t1 == IF t.idle_grace_timer # None
                THEN [source_remove(t, t.idle_grace_timer) EXCEPT !.idle_grace_timer = None]
                ELSE t
    IN IF timeout > 0 /\ ~isclosed
         THEN [timeout_add(t1, grace_delay(timeout, grace), "idle_grace_timedout")
                  EXCEPT !.idle_grace_timer = t1.next_source]
         ELSE t1

\* close(): what it does to the timers (nothing: it cancels only the
\* recalculate timer of the encodings mixin)
close_timers(t) == t

\* time passes until the next pending source is due
tick ==
    /\ main_pc = "idle"
    /\ sources # {}
    /\ \A s \in sources : s.remaining > 0
    /\ LET d == CHOOSE d \in {s.remaining : s \in sources} :
                    \A s \in sources : d <= s.remaining
       IN sources' = {[s EXCEPT !.remaining = @ - d] : s \in sources}
    /\ last_op' = "tick"
    /\ UNCHANGED <<idle_timer, idle_grace_timer, next_source>>
    /\ UNCHANGED <<idle_timeout, idle_grace_duration, idle, user_event_seen,
                   idle_cb_calls,
                   grace_cb_calls, last_fired>>
    /\ UNCHANGED <<queueVars, closeVars, sendVars, npVars, notifyVars, ctlVars, wsVars>>

\* faulty variant, used to test the properties: idle_timedout() that re-arms
\* its timer without invoking the callback
idle_cb_invoked_never(isclosed) == FALSE

\* whether idle_timedout() invokes idle_timeout_cb: it always does
idle_cb_invoked(isclosed) == TRUE

\* whether idle_grace_timedout() invokes idle_grace_timeout_cb: it always does
grace_cb_invoked(isclosed) == TRUE

\* idle_grace_timedout(), run by the main loop when its source is due
idle_grace_timedout ==
    /\ main_pc = "idle"
    /\ grace_cb_calls < MaxCallbacks
    /\ \E s \in sources :
          /\ s.cb = "idle_grace_timedout"
          /\ s.remaining = 0
          /\ SetTimers([source_remove(Timers, s.id) EXCEPT !.idle_grace_timer = None])
          /\ last_fired' = [id |-> s.id, cb |-> s.cb, delay |-> s.delay]
    /\ grace_cb_calls' = IF grace_cb_invoked(is_closed) THEN grace_cb_calls + 1
                                                        ELSE grace_cb_calls
    /\ last_op' = "idle_grace_timedout"
    /\ UNCHANGED <<idle_timeout, idle_grace_duration, idle, user_event_seen,
                   idle_cb_calls>>
    /\ UNCHANGED <<queueVars, closeVars, sendVars, npVars, notifyVars, ctlVars, wsVars>>

\* faulty variant, used to test the properties: idle_timedout() that does not
\* re-arm its timer
rearm_idle_never(t, timeout, isclosed) == t

\* idle_timedout(): "if not self.is_closed(): self.schedule_idle_timeout()"
rearm_idle(t, timeout, isclosed) ==
    IF ~isclosed THEN schedule_idle_timeout(t, timeout) ELSE t

\* idle_timedout(), run by the main loop when its source is due
idle_timedout ==
    /\ main_pc = "idle"
    /\ idle_cb_calls < MaxCallbacks
    /\ next_source <= MaxSources
    /\ \E s \in sources :
          /\ s.cb = "idle_timedout"
          /\ s.remaining = 0
          /\ LET t1 == [source_remove(Timers, s.id) EXCEPT !.idle_timer = None]
             IN SetTimers(rearm_idle(t1, idle_timeout, is_closed))
          /\ last_fired' = [id |-> s.id, cb |-> s.cb, delay |-> s.delay]
    /\ idle_cb_calls' = IF idle_cb_invoked(is_closed) THEN idle_cb_calls + 1
                                                      ELSE idle_cb_calls
    /\ last_op' = "idle_timedout"
    /\ UNCHANGED <<idle_timeout, idle_grace_duration, idle, user_event_seen,
                   grace_cb_calls>>
    /\ UNCHANGED <<queueVars, closeVars, sendVars, npVars, notifyVars, ctlVars, wsVars>>

\* faulty variant, used to test the properties: notify_close() that does not
\* wait for the hello
notify_close_sends_before_hello == send_notifications /\ ~suspended

\* notify_close(nid) queues a packet unless
\* "not self.send_notifications or self.suspended or not self.hello_sent"
notify_close_sends == send_notifications /\ ~suspended /\ hello_sent

\* faulty variant, used to test the properties: the pop drops every callback
pop_callback_all(callbacks, nid) == [n \in {} |-> None]

\* self.notification_callbacks.pop(nid), with "except KeyError: pass"
pop_callback(callbacks, nid) == [n \in DOMAIN callbacks \ {nid} |-> callbacks[n]]

\* user_event()
user_event ==
    /\ main_pc = "idle"
    /\ next_source + 1 <= MaxSources
    /\ SetTimers(schedule_idle_timeout(
                    schedule_idle_grace_timeout(Timers, idle_timeout,
                                                idle_grace_duration, is_closed),
                    idle_timeout))
    \* if self.idle: self.no_idle()
    /\ idle' = FALSE
    \* self.notification_callbacks.pop(XPRA_IDLE_NOTIFICATION_ID), then notify_close
    /\ notification_callbacks' =
          pop_callback(notification_callbacks, XPRA_IDLE_NOTIFICATION_ID)
    /\ user_event_seen' =
          [no_idle |-> idle,
           notify_close |-> XPRA_IDLE_NOTIFICATION_ID \in DOMAIN notification_callbacks]
    /\ IF XPRA_IDLE_NOTIFICATION_ID \in DOMAIN notification_callbacks
          /\ notify_close_sends /\ has_protocol(protocol)
         THEN /\ next_id <= MaxPackets
              /\ append_parts(<<"notify_close", XPRA_IDLE_NOTIFICATION_ID>>,
                              send_kwargs("send_more"))
         ELSE UNCHANGED <<ordinary_packets, appended_ord, next_id, signals>>
    /\ UNCHANGED <<packet_queue, appended_bulk, delivered>>
    /\ last_op' = "user_event"
    /\ UNCHANGED <<idle_timeout, idle_grace_duration, idle_cb_calls, grace_cb_calls,
                   last_fired>>
    /\ UNCHANGED <<notify_call, send_notifications, suspended, hello_sent>>
    /\ UNCHANGED <<closeVars, sendVars, npVars, ctlVars, wsVars>>

(***************************************************************************)
(* close(), on the main thread.                                            *)
(***************************************************************************)
\* for c in ClientConnection.__bases__: c.cleanup(self); self.close_event.set()
\* (the mixins' cleanup touches none of the state modelled here)
close_set ==
    /\ main_pc = "idle"
    /\ close_calls < MaxClose
    /\ close_calls' = close_calls + 1
    /\ close_mark' = IF closed THEN close_mark ELSE next_id
    /\ closed' = TRUE
    /\ main_pc' = "close_put"
    /\ SetTimers(close_timers(Timers))
    /\ last_op' = "close"
    /\ UNCHANGED <<encode_work_queue, protocol>>
    /\ UNCHANGED <<idle_timeout, idle_grace_duration, idle, user_event_seen,
                   idle_cb_calls,
                   grace_cb_calls, last_fired>>
    /\ UNCHANGED <<queueVars, sendVars, npVars, notifyVars, ctlVars, wsVars>>

\* faulty variant, used to test the properties: the marker is put only by the first close()
close_put_once ==
    /\ main_pc = "close_put"
    /\ encode_work_queue' = IF encode_work_queue = <<>>
                               THEN Append(encode_work_queue, None)
                               ELSE encode_work_queue
    /\ main_pc' = "close_end"
    /\ UNCHANGED <<closed, protocol, close_calls, close_mark>>
    /\ UNCHANGED <<queueVars, sendVars, npVars, timerVars, idleVars, notifyVars, ctlVars, wsVars>>

\* self.encode_work_queue.put(None)
close_put ==
    /\ main_pc = "close_put"
    /\ encode_work_queue' = Append(encode_work_queue, None)
    /\ main_pc' = "close_end"
    /\ UNCHANGED <<closed, protocol, close_calls, close_mark>>
    /\ UNCHANGED <<queueVars, sendVars, npVars, timerVars, idleVars, notifyVars, ctlVars, wsVars>>

\* self.cancel_recalculate_timer(); self.protocol = None
close_end ==
    /\ main_pc = "close_end"
    /\ protocol' = FALSE
    /\ main_pc' = "idle"
    /\ UNCHANGED <<encode_work_queue, closed, close_calls, close_mark>>
    /\ UNCHANGED <<queueVars, sendVars, npVars, timerVars, idleVars, notifyVars, ctlVars, wsVars>>


(***************************************************************************)
(* The window sources.  A window source is                                 *)
(* [suspended, window_dimensions, damage_pixels, bandwidth_limit,          *)
(*  av_sync_delay]; window_sources maps the window ids 1..n to them.       *)
(***************************************************************************)
\* the sizes a window has, and the values its get_damage_pixels() returns
WindowDimensions == {<<0, 0>>, <<10, 10>>}

DamagePixels == {0, 200}

\* a window source before any limit or delay has been given to it
WindowSource(susp, dim, damage) ==
    [suspended |-> susp, window_dimensions |-> dim, damage_pixels |-> damage,
     bandwidth_limit |-> 0, av_sync_delay |-> 0]

\* every population of at most MaxWindows window sources
AllWindowSources ==
    UNION {[1..n -> {WindowSource(susp, dim, damage) :
                        susp \in BOOLEAN, dim \in WindowDimensions,
                        damage \in DamagePixels}] : n \in 0..MaxWindows}

\* at most MaxWindows active windows of one size
PlainWindowSources ==
    {[wid \in 1..n |-> WindowSource(FALSE, <<10, 10>>, 0)] : n \in 0..MaxWindows}

(***************************************************************************)
(* update_bandwidth_limits().                                              *)
(***************************************************************************)
\* the values self.statistics.avg_congestion_send_speed takes
Speeds == {0, 1000, 20 * 1024 * 1024, 20 * 1024 * 1024 + 1, 25 * 1024 * 1024}

\* faulty variant, used to test the properties: the mmap test is missing
mmap_active_never(size) == FALSE

\* "if self.mmap_size>0: return"
mmap_active(size) == size > 0

\* faulty variant, used to test the properties: the detected speed is used whatever it is
detected_limit_no_ceiling(detection, speed) == IF detection THEN speed ELSE 0

\* bandwidth_limit = 0; if BANDWIDTH_DETECTION: the congestion send speed,
\* or 0 "if bandwidth_limit>20*1024*1024"
detected_limit(detection, speed) ==
    IF detection
      THEN IF speed > 20 * 1024 * 1024 THEN 0 ELSE speed
      ELSE 0

\* if self.bandwidth_limit>0: bandwidth_limit = min(self.bandwidth_limit, bandwidth_limit)
soft_limit(hard, detected) == IF hard > 0 THEN Min(hard, detected) ELSE detected

\* weight = 0; if not ws.suspended: weight = ww*wh + ws.statistics.get_damage_pixels()
window_weight(ws) ==
    IF ~ws.suspended
      THEN ws.window_dimensions[1] * ws.window_dimensions[2] + ws.damage_pixels
      ELSE 0

\* sum(window_weight.values())
RECURSIVE sum_weights(_, _)
sum_weights(wss, n) ==
    IF n = 0 THEN 0 ELSE window_weight(wss[n]) + sum_weights(wss, n - 1)

total_weight(wss) == sum_weights(wss, Len(wss))

\* faulty variant, used to test the properties: the quotient rounded up
mul_ceildiv(a, b, c) == (a \div c) * b + ((a % c) * b + c - 1) \div c

\* a*b//c for a, b >= 0 and c > 0.  Python's integers are unbounded; the
\* product is taken in two parts, a = (a//c)*c + a%c, so that no intermediate
\* value exceeds a*b//c + b*c
mul_floordiv(a, b, c) == (a \div c) * b + ((a % c) * b) \div c

\* faulty variant, used to test the properties: the share without its floor of 1
window_limit_no_floor(limit, weight, total) == mul_floordiv(limit, weight, total)

\* max(1, bandwidth_limit*weight//total_weight)
window_limit(limit, weight, total) == Max(1, mul_floordiv(limit, weight, total))

\* "weight = window_weight.get(wid); if weight is not None": window_weight
\* has an entry for every window of window_sources, suspended or not
has_weight(wss, wid) == wid \in DOMAIN wss

\* whether the second loop raises ZeroDivisionError: its first iteration
\* divides by total_weight
divides_by_zero(wss) == Len(wss) > 0 /\ total_weight(wss) = 0

\* faulty variant, used to test the properties: the share is added to the
\* limit the window has
distribute_added(wss, limit) ==
    [wid \in DOMAIN wss |->
        [wss[wid] EXCEPT !.bandwidth_limit =
            @ + window_limit(limit, window_weight(wss[wid]), total_weight(wss))]]

\* the window sources after the second loop
distribute(wss, limit) ==
    [wid \in DOMAIN wss |->
        IF has_weight(wss, wid)
          THEN [wss[wid] EXCEPT !.bandwidth_limit =
                    window_limit(limit, window_weight(wss[wid]), total_weight(wss))]
          ELSE wss[wid]]

\* faulty variant, used to test the properties: a soft limit of 0 is shared out
unconstrained_below_zero(limit) == limit < 0

\* "if self.soft_bandwidth_limit<=0: return"
unconstrained(limit) == limit <= 0

\* update_bandwidth_limits(), called while the statistics hold speed
update_bandwidth_limits(speed) ==
    /\ main_pc = "idle"
    /\ avg_congestion_send_speed' = speed
    /\ IF mmap_active(mmap_size)
         THEN /\ bw_raised' = FALSE
              /\ UNCHANGED <<soft_bandwidth_limit, window_sources>>
         ELSE LET limit == soft_limit(bandwidth_limit,
                                      detected_limit(BANDWIDTH_DETECTION, speed))
              IN /\ soft_bandwidth_limit' = limit
                 /\ IF unconstrained(limit)
                      THEN /\ bw_raised' = FALSE
                           /\ UNCHANGED window_sources
                      ELSE IF divides_by_zero(window_sources)
                             THEN /\ bw_raised' = TRUE
                                  /\ UNCHANGED window_sources
                             ELSE /\ bw_raised' = FALSE
                                  /\ window_sources' = distribute(window_sources, limit)
    /\ last_op' = "update_bandwidth_limits"
    /\ repeated' = (last_op = "update_bandwidth_limits"
                      /\ speed = avg_congestion_send_speed)
    /\ UNCHANGED <<BANDWIDTH_DETECTION, mmap_size, server_bandwidth_limit, bandwidth_limit>>
    /\ UNCHANGED <<avVars, desktop_size, client_caps>>
    /\ UNCHANGED <<timerVars, idle_timeout, idle_grace_duration, idle, user_event_seen,
                   idle_cb_calls,
                   grace_cb_calls, last_fired>>
    /\ UNCHANGED <<queueVars, closeVars, sendVars, npVars, notifyVars, wsVars>>

(***************************************************************************)
(* The av-sync delay.                                                      *)
(***************************************************************************)
\* the delays handed to set_av_sync_delay(), the deltas handed to
\* set_av_sync_delta(), the latencies get_sound_source_latency() returns
Delays == {-2000, 0, 150, 700, 2000}

Deltas == {-500, 0, 400}

Latencies == {-300, 0, 50, 600}

\* faulty variant, used to test the properties: the sum without min(1000, max(0, ...))
av_sync_total_unclamped(delay, delta, latency) == delay + delta + latency

\* min(1000, max(0, int(self.av_sync_delay) + self.av_sync_delta + encoder_latency))
av_sync_total(delay, delta, latency) == Min(1000, Max(0, delay + delta + latency))

\* faulty variant, used to test the properties: the total is computed whether
\* av-sync is enabled or not
recompute_av_sync_always(delay, delta, latency) ==
    /\ av_sync_delay' = delay
    /\ av_sync_delta' = delta
    /\ encoder_latency' = latency
    /\ av_sync_delay_total' = av_sync_total(delay, delta, latency)
    /\ window_sources' = [wid \in DOMAIN window_sources |->
                            [window_sources[wid] EXCEPT !.av_sync_delay =
                                                            av_sync_delay_total']]
    /\ UNCHANGED av_sync

\* faulty variant, used to test the properties: only the first window source
\* is given the new total
recompute_av_sync_first_only(delay, delta, latency) ==
    /\ av_sync_delay' = delay
    /\ av_sync_delta' = delta
    /\ encoder_latency' = latency
    /\ av_sync_delay_total' = IF av_sync THEN av_sync_total(delay, delta, latency)
                                         ELSE 0
    /\ window_sources' = [wid \in DOMAIN window_sources |->
                            IF wid = 1
                              THEN [window_sources[wid] EXCEPT !.av_sync_delay =
                                                            av_sync_delay_total']
                              ELSE window_sources[wid]]
    /\ UNCHANGED av_sync

\* update_av_sync_delay_total() once av_sync_delay and av_sync_delta hold
\* delay and delta, while the sound source reports latency
recompute_av_sync(delay, delta, latency) ==
    /\ av_sync_delay' = delay
    /\ av_sync_delta' = delta
    /\ encoder_latency' = latency
    /\ av_sync_delay_total' = IF av_sync THEN av_sync_total(delay, delta, latency)
                                         ELSE 0
    \* for ws in self.window_sources.values(): ws.set_av_sync_delay(...)
    /\ window_sources' = [wid \in DOMAIN window_sources |->
                            [window_sources[wid] EXCEPT !.av_sync_delay =
                                                            av_sync_delay_total']]
    /\ UNCHANGED av_sync

\* what the av-sync handlers leave alone
av_sync_frame ==
    /\ UNCHANGED <<bwVars, desktop_size, client_caps>>
    /\ UNCHANGED <<timerVars, idle_timeout, idle_grace_duration, idle, user_event_seen,
                   idle_cb_calls,
                   grace_cb_calls, last_fired>>
    /\ UNCHANGED <<queueVars, closeVars, sendVars, npVars, notifyVars, wsVars>>

\* set_av_sync_delta(delta)
set_av_sync_delta(delta, latency) ==
    /\ main_pc = "idle"
    /\ recompute_av_sync(av_sync_delay, delta, latency)
    /\ last_op' = "set_av_sync_delta"
    /\ repeated' = FALSE
    /\ av_sync_frame

\* set_av_sync_delay(v)
set_av_sync_delay(v, latency) ==
    /\ main_pc = "idle"
    /\ recompute_av_sync(v, av_sync_delta, latency)
    /\ last_op' = "set_av_sync_delay"
    /\ repeated' = FALSE
    /\ av_sync_frame

\* update_av_sync_delay_total()
update_av_sync_delay_total(latency) ==
    /\ main_pc = "idle"
    /\ recompute_av_sync(av_sync_delay, av_sync_delta, latency)
    /\ last_op' = "update_av_sync_delay_total"
    /\ repeated' = (last_op = "update_av_sync_delay_total"
                      /\ latency = encoder_latency)
    /\ av_sync_frame

(***************************************************************************)
(* parse_hello(c).  The capabilities c are a record of the keys read here; *)
(* a key the client leaves out has its default.                            *)
(***************************************************************************)
DefaultCaps ==
    [notifications |-> FALSE, bandwidth_limit |-> 0, desktop_size |-> NoPair,
     av_sync |-> FALSE, av_sync_delay_default |-> 150]

\* the values of mmap_size MMAP_Connection.parse_client_caps() leaves
MmapSizes == {0, 4096}

\* the "bandwidth-limit" a client declares
ClientLimits == {0, 1, 2000}

\* the hellos that differ in their "bandwidth-limit"
BandwidthCaps == {[DefaultCaps EXCEPT !.bandwidth_limit = b] : b \in ClientLimits}

\* the "desktop_size" a client declares, or none
DesktopSizes ==
    {NoPair, <<800, 600>>, <<1, 1>>, <<32767, 32767>>, <<40000, 10>>, <<10, 40000>>,
     <<0, 600>>, <<800, -1>>, <<32768, 600>>, <<800, 32768>>}

\* hellos that differ in every key read
HelloCaps ==
    {[DefaultCaps EXCEPT !.notifications = n, !.bandwidth_limit = b,
                         !.desktop_size = d, !.av_sync = a] :
        n \in BOOLEAN, b \in ClientLimits, d \in DesktopSizes, a \in {TRUE}}

\* the hellos that differ in "notifications"
NotifyCaps == {[DefaultCaps EXCEPT !.notifications = n] : n \in BOOLEAN}

\* the hellos that differ in "av-sync" and "av-sync.delay.default"
AVSyncCaps ==
    {[DefaultCaps EXCEPT !.av_sync = a, !.av_sync_delay_default = d] :
        a \in BOOLEAN, d \in {-100, 150, 3000}}

\* int(b)
bool_int(b) == IF b THEN 1 ELSE 0

\* faulty variant, used to test the properties: the server's limit is ignored
hello_bandwidth_limit_client(server, client, mmap) == IF mmap > 0 THEN 0 ELSE client

\* the hard limit parse_hello() settles on
hello_bandwidth_limit(server, client, mmap) ==
    IF mmap > 0
      THEN 0
      ELSE IF server <= 0 THEN client ELSE Min(server, client)

\* faulty variant, used to test the properties: the pair is stored unchecked
hello_desktop_size_unchecked(pair) == pair

\* self.desktop_size = c.intpair("desktop_size"), None when out of range
hello_desktop_size(pair) ==
    IF pair = NoPair
      THEN NoPair
      ELSE IF pair[1] <= 0 \/ pair[2] <= 0 \/ pair[1] >= 32768 \/ pair[2] >= 32768
             THEN NoPair
             ELSE pair

\* parse_hello(c); mmap is the mmap_size the mmap mixin settles on
parse_hello(c, mmap, latency) ==
    /\ main_pc = "idle"
    /\ mmap_size' = mmap
    /\ send_notifications' = c.notifications
    /\ bandwidth_limit' = hello_bandwidth_limit(server_bandwidth_limit,
                                                c.bandwidth_limit, mmap)
    /\ desktop_size' = hello_desktop_size(c.desktop_size)
    \* self.set_av_sync_delay(int(self.av_sync and av_sync) * c.intget("av-sync.delay.default", 150))
    /\ recompute_av_sync(bool_int(av_sync /\ c.av_sync) * c.av_sync_delay_default,
                         av_sync_delta, latency)
    /\ client_caps' = c
    /\ last_op' = "parse_hello"
    /\ repeated' = FALSE
    /\ UNCHANGED <<BANDWIDTH_DETECTION, server_bandwidth_limit, soft_bandwidth_limit,
                   avg_congestion_send_speed, bw_raised>>
    /\ UNCHANGED <<notification_callbacks, notify_call, suspended, hello_sent>>
    /\ UNCHANGED <<timerVars, idle_timeout, idle_grace_duration, idle, user_event_seen,
                   idle_cb_calls,
                   grace_cb_calls, last_fired>>
    /\ UNCHANGED <<queueVars, closeVars, sendVars, npVars, wsVars>>

(***************************************************************************)
(* send_hello() and the notifications, on the main thread.                 *)
(***************************************************************************)
\* send(*parts) called by a handler of the main thread:
\* p = self.protocol; if p: append and signal
main_send(parts, method) ==
    IF has_protocol(protocol)
      THEN /\ next_id <= MaxPackets
           /\ append_parts(parts, send_kwargs(method))
      ELSE UNCHANGED <<ordinary_packets, appended_ord, next_id, signals>>

\* what send_hello() and the notification handlers leave alone
main_frame ==
    /\ UNCHANGED <<packet_queue, appended_bulk, delivered>>
    /\ UNCHANGED <<timerVars, idle_timeout, idle_grace_duration, idle, user_event_seen,
                   idle_cb_calls,
                   grace_cb_calls, last_fired>>
    /\ UNCHANGED <<closeVars, sendVars, npVars, ctlVars, wsVars>>

\* send_hello(server_capabilities): self.send("hello", capabilities); self.hello_sent = True
send_hello ==
    /\ main_pc = "idle"
    /\ main_send(<<"hello">>, "send")
    /\ hello_sent' = TRUE
    /\ last_op' = "send_hello"
    /\ UNCHANGED <<notification_callbacks, notify_call, send_notifications, suspended>>
    /\ main_frame

\* the notification ids and the user callbacks handed to notify()
Nids == {XPRA_IDLE_NOTIFICATION_ID, 7}

Callbacks == {None, 1, 2}

\* faulty variant, used to test the properties: the suspended test is missing
notify_refused_unless_negotiated(negotiated, susp) == ~negotiated

\* "if not self.send_notifications: return False; if self.suspended: return False"
notify_refused(negotiated, susp) == ~negotiated \/ susp

\* faulty variant, used to test the properties: the callback is recorded only
\* once hello has been sent
store_callback_after_hello(callbacks, nid, user_callback) ==
    IF user_callback # None /\ hello_sent
      THEN [n \in DOMAIN callbacks \cup {nid} |->
               IF n = nid THEN user_callback ELSE callbacks[n]]
      ELSE callbacks

\* "if user_callback: self.notification_callbacks[nid] = user_callback"
store_callback(callbacks, nid, user_callback) ==
    IF user_callback # None
      THEN [n \in DOMAIN callbacks \cup {nid} |->
               IF n = nid THEN user_callback ELSE callbacks[n]]
      ELSE callbacks

\* notify(dbus_id, nid, ..., user_callback)
notify(nid, user_callback) ==
    /\ main_pc = "idle"
    /\ IF notify_refused(send_notifications, suspended)
         THEN /\ notify_call' = [op |-> "notify", nid |-> nid,
                                 user_callback |-> user_callback, result |-> FALSE]
              /\ UNCHANGED <<notification_callbacks, ordinary_packets, appended_ord,
                             next_id, signals>>
         ELSE /\ notification_callbacks' =
                    store_callback(notification_callbacks, nid, user_callback)
              /\ IF hello_sent
                   THEN main_send(<<"notify_show", nid>>, "send_async")
                   ELSE UNCHANGED <<ordinary_packets, appended_ord, next_id, signals>>
              /\ notify_call' = [op |-> "notify", nid |-> nid,
                                 user_callback |-> user_callback, result |-> TRUE]
    /\ last_op' = "notify"
    /\ UNCHANGED <<send_notifications, suspended, hello_sent>>
    /\ main_frame

\* notify_close(nid)
notify_close(nid) ==
    /\ main_pc = "idle"
    /\ IF notify_close_sends
         THEN main_send(<<"notify_close", nid>>, "send_more")
         ELSE UNCHANGED <<ordinary_packets, appended_ord, next_id, signals>>
    /\ notify_call' = [op |-> "notify_close", nid |-> nid, user_callback |-> None,
                       result |-> FALSE]
    /\ last_op' = "notify_close"
    /\ UNCHANGED <<notification_callbacks, send_notifications, suspended, hello_sent>>
    /\ main_frame

\* the session goes idle: the server's idle callback sets the flag that
\* user_event() tests
set_idle ==
    /\ main_pc = "idle"
    /\ idle' = TRUE
    /\ last_op' = "set_idle"
    /\ UNCHANGED <<timerVars, idle_timeout, idle_grace_duration, user_event_seen,
                   idle_cb_calls, grace_cb_calls, last_fired>>
    /\ UNCHANGED <<queueVars, closeVars, sendVars, npVars, notifyVars, ctlVars, wsVars>>

\* the session is suspended or resumed
set_suspended(susp) ==
    /\ main_pc = "idle"
    /\ suspended' = susp
    /\ last_op' = "set_suspended"
    /\ UNCHANGED <<notification_callbacks, notify_call, send_notifications, hello_sent>>
    /\ UNCHANGED <<ordinary_packets, appended_ord, next_id, signals>>
    /\ main_frame

(***************************************************************************)
(* WebSocketRequestHandler (websocket.py).  A request is                   *)
(* [only_upgrade, upgrade, version, protocols, key]: the handler's         *)
(* only_upgrade flag and the headers of the GET request; a header that is  *)
(* not sent is Missing.  trace is what the handler did, in order.          *)
(***************************************************************************)
Missing == "<missing>"

\* SUPPORT_HyBi_PROTOCOLS = ("7", "8", "13")
SUPPORT_HyBi_PROTOCOLS == {"7", "8", "13"}

\* the values of the "Upgrade" and of the "Sec-WebSocket-Version" header
UpgradeHeaders == {Missing, "websocket", "WebSocket", "h2c"}

VersionHeaders == {Missing, "7", "8", "13", "6"}

\* the values of the "Sec-WebSocket-Protocol" header, as the pieces between
\* its commas: "binary", "base64", "base64,binary" and "base64, binary"
ProtocolHeaders ==
    {<<Missing>>, <<"binary">>, <<"base64">>, <<"base64", "binary">>,
     <<"base64", " binary">>}

KeyHeaders == {Missing, "dGhlIHNhbXBsZSBub25jZQ=="}

Requests ==
    [only_upgrade : BOOLEAN, upgrade : UpgradeHeaders, version : VersionHeaders,
     protocols : ProtocolHeaders, key : KeyHeaders]

\* one thing the handler did: a write to wfile, a flush, a close, a call
Event(op, arg) == [op |-> op, arg |-> arg]

\* str.lower(), on the values of the Upgrade header
lower(s) == IF s = "WebSocket" THEN "websocket" ELSE s

\* self.headers.get("Sec-WebSocket-Protocol", "").split(",")
split_protocols(h) == IF h = <<Missing>> THEN <<"">> ELSE h

\* faulty variant, used to test the properties: any version header is accepted
supported_version_any(ver) == TRUE

\* "ver not in SUPPORT_HyBi_PROTOCOLS" raises
supported_version(ver) == ver \in SUPPORT_HyBi_PROTOCOLS

\* "binary" in protocols
offers_binary(protocols) == \E i \in 1..Len(protocols) : protocols[i] = "binary"

\* the exception the checks of handle_websocket() raise, "" if none
check_failure(req) ==
    IF req.version = Missing THEN "Missing Sec-WebSocket-Version header"
    ELSE IF ~supported_version(req.version) THEN "Unsupported protocol version"
    ELSE IF ~offers_binary(split_protocols(req.protocols))
           THEN "client does not support 'binary' protocol"
    ELSE IF req.key = Missing THEN "Missing Sec-WebSocket-Key header"
    ELSE ""

\* the six lines of the upgrade response, then wfile.flush() and wfile.close()
upgrade_response(key) ==
    << Event("write", "HTTP/1.1 101 Switching Protocols"),
       Event("write", "Upgrade: websocket"),
       Event("write", "Connection: Upgrade"),
       Event("write", "Sec-WebSocket-Accept: make_websocket_accept_hash(key)"),
       Event("write", "Sec-WebSocket-Protocol: binary"),
       Event("write", ""),
       Event("flush", ""),
       Event("close", "") >>

\* handle_websocket(): what it did and the exception it raised ("" if none),
\* when the first io_ok operations on wfile succeed and the next one raises,
\* and new_websocket_client raises or not
handle_websocket(req, io_ok, client_raises) ==
    IF check_failure(req) # ""
      THEN [trace |-> <<>>, raised |-> check_failure(req), wfile_closed |-> FALSE]
      ELSE IF io_ok < Len(upgrade_response(req.key))
             THEN [trace |-> SubSeq(upgrade_response(req.key), 1, io_ok),
                   raised |-> "wfile error", wfile_closed |-> FALSE]
             ELSE [trace |-> Append(upgrade_response(req.key),
                                    Event("new_websocket_client", "")),
                   raised |-> IF client_raises THEN "new_websocket_client error" ELSE "",
                   wfile_closed |-> TRUE]

\* handle_request(): 405 for a handler that only upgrades, else the head and
\* the content send_head() returns, if any
handle_request(only_upgrade, content) ==
    <<Event("handle_request", "")>>
    \o (IF only_upgrade
          THEN <<Event("send_error", "405")>>
          ELSE IF content
                 THEN <<Event("send_head", ""), Event("write", "content")>>
                 ELSE <<Event("send_head", "")>>)
    \o <<Event("flush", ""), Event("close", "")>>

\* "self.only_upgrade or (upgrade header and upgrade header.lower() == 'websocket')"
is_upgrade(req) ==
    req.only_upgrade \/ (req.upgrade # Missing /\ lower(req.upgrade) = "websocket")

\* the number of wfile operations that succeed before one raises
IoOutcomes == 0..Len(upgrade_response(Missing))

NoRequest == [pc |-> "idle", request |-> Missing, trace |-> <<>>, raised |-> ""]

\* do_GET() for a parsed request; an exception of handle_websocket() is
\* answered with send_error(403), which raises in its turn when wfile has
\* been closed already
do_GET(req, io_ok, client_raises, content) ==
    /\ websocket.pc = "idle"
    /\ websocket' = IF is_upgrade(req)
               THEN LET r == handle_websocket(req, io_ok, client_raises)
                    IN IF r.raised = ""
                         THEN [pc |-> "done", request |-> req, trace |-> r.trace,
                               raised |-> ""]
                         ELSE IF r.wfile_closed
                                THEN [pc |-> "done", request |-> req,
                                      trace |-> Append(r.trace, Event("send_error", "403")),
                                      raised |-> "I/O operation on closed file"]
                                ELSE [pc |-> "done", request |-> req,
                                      trace |-> r.trace \o <<Event("send_error", "403"),
                                                             Event("flush", ""),
                                                             Event("close", "")>>,
                                      raised |-> ""]
               ELSE [pc |-> "done", request |-> req,
                     trace |-> handle_request(req.only_upgrade, content), raised |-> ""]
    /\ UNCHANGED <<queueVars, closeVars, sendVars, npVars, timerVars, idleVars,
                   notifyVars, ctlVars>>

(***************************************************************************)
(* The state after __init__ and init_vars(), for a given idle_timeout.     *)
(***************************************************************************)
\* self.notification_callbacks = {}
NoCallbacks == [nid \in {} |-> None]

\* no notify() or notify_close() call yet
\* no user_event() yet
NoEvent == [no_idle |-> FALSE, notify_close |-> FALSE]

NoCall == [op |-> "none", nid |-> None, user_callback |-> None, result |-> FALSE]

InitSession(timeouts) ==
    /\ ordinary_packets = <<>>
    /\ packet_queue = <<>>
    /\ encode_work_queue = <<>>
    /\ closed = FALSE
    /\ protocol = TRUE
    /\ signals = 0
    /\ next_id = 1
    /\ appended_ord = <<>>
    /\ appended_bulk = <<>>
    /\ delivered = <<>>
    /\ main_pc = "idle"
    /\ close_calls = 0
    /\ close_mark = None
    /\ send_pc = "idle"
    /\ send_args = send_kwargs("send")
    /\ np_pc = "idle"
    /\ np_result = NoPacket
    /\ np_seen = NotSeen
    /\ np_calls = FALSE
    /\ idle_timeout \in timeouts
    /\ idle_grace_duration = grace_duration(idle_timeout)
    /\ LET t == schedule_idle_timeout(
                   schedule_idle_grace_timeout(NoTimers, idle_timeout,
                                               idle_grace_duration, FALSE),
                   idle_timeout)
       IN /\ idle_timer = t.idle_timer
          /\ idle_grace_timer = t.idle_grace_timer
          /\ sources = t.sources
          /\ next_source = t.next_source
    /\ idle = FALSE
    /\ user_event_seen = NoEvent
    /\ idle_cb_calls = 0
    /\ grace_cb_calls = 0
    /\ last_fired = [id |-> None, cb |-> "none", delay |-> 0]
    /\ last_op = "init"
    /\ notification_callbacks = NoCallbacks
    /\ notify_call = NoCall
    /\ send_notifications = FALSE
    /\ suspended = FALSE
    /\ hello_sent = FALSE
    /\ desktop_size = NoPair
    /\ websocket = NoRequest

\* the server's bandwidth-limit a session is constructed with
ServerLimits == {0, 1000}

\* the bandwidth and av-sync fields after __init__ and init_vars(), for the
\* given settings, constructor arguments and window sources
InitControl(detections, limits, flags, windows) ==
    /\ BANDWIDTH_DETECTION \in detections
    /\ mmap_size = 0
    /\ server_bandwidth_limit \in limits
    /\ bandwidth_limit = server_bandwidth_limit
    /\ soft_bandwidth_limit = bandwidth_limit
    /\ avg_congestion_send_speed = 0
    /\ bw_raised = FALSE
    /\ av_sync \in flags
    /\ av_sync_delay = 0
    /\ av_sync_delay_total = 0
    /\ av_sync_delta = AV_SYNC_DELTA
    /\ encoder_latency = 0
    /\ window_sources \in windows
    /\ client_caps = DefaultCaps
    /\ repeated = FALSE

\* a session without a bandwidth limit, without av-sync and without windows
NoControl == InitControl({TRUE}, {0}, {FALSE}, {<<>>})

\* the packet scheduler: a session without an idle timeout
Init == InitSession({0}) /\ NoControl

Next ==
    \/ send_begin
    \/ send_append
    \/ queue_packet
    \/ next_packet_begin
    \/ next_packet_ordinary
    \/ next_packet_bulk
    \/ next_packet_return
    \/ close_set
    \/ close_put
    \/ close_end

Spec == Init /\ [][Next]_vars

\* the packet scheduler of a session that stays open, with a transport that
\* keeps calling next_packet() and runs each call to its end; send() and the
\* encoder may queue packets, or not
NextOpen ==
    \/ send_begin
    \/ send_append
    \/ queue_packet
    \/ next_packet_begin
    \/ next_packet_ordinary
    \/ next_packet_bulk
    \/ next_packet_return

SpecPull ==
    /\ Init
    /\ [][NextOpen]_vars
    /\ WF_vars(next_packet_begin)
    /\ WF_vars(next_packet_ordinary)
    /\ WF_vars(next_packet_bulk)
    /\ WF_vars(next_packet_return)

\* the idle / grace timers
InitIdle == InitSession(IdleTimeouts) /\ NoControl

NextIdle ==
    \/ user_event
    \/ tick
    \/ idle_grace_timedout
    \/ idle_timedout
    \/ close_set
    \/ close_put
    \/ close_end

SpecIdle == InitIdle /\ [][NextIdle]_vars

\* the idle / grace timers, run by a main loop that lets time pass and runs
\* every callback that is due (GLib runs the due sources of its loop at each
\* iteration); user_event() and close() may happen, or not
IdleTimeoutsFair == {0, 5, 60, MaxIdleTimeout}

InitIdleFair == InitSession(IdleTimeoutsFair) /\ NoControl

SpecIdleFair ==
    /\ InitIdleFair
    /\ [][NextIdle]_vars
    /\ WF_vars(tick)
    /\ WF_vars(idle_grace_timedout)
    /\ WF_vars(idle_timedout)

\* user activity on a session that shows notifications
EventTimeouts == {0, 60}

InitEvent == InitSession(EventTimeouts) /\ NoControl

NextEvent ==
    \/ \E c \in NotifyCaps : parse_hello(c, 0, 0)
    \/ send_hello
    \/ \E nid \in Nids : notify(nid, 2)
    \/ set_idle
    \/ user_event
    \/ close_set
    \/ close_put
    \/ close_end

SpecEvent == InitEvent /\ [][NextEvent]_vars

\* the websocket upgrade of one GET request
NextWS ==
    \E req \in Requests, io_ok \in IoOutcomes, client_raises \in BOOLEAN,
       content \in BOOLEAN : do_GET(req, io_ok, client_raises, content)

SpecWS == Init /\ [][NextWS]_vars

\* the bandwidth limits
InitBW == InitSession({0}) /\ InitControl(BOOLEAN, ServerLimits, {FALSE}, AllWindowSources)

NextBW ==
    \/ \E c \in BandwidthCaps, mmap \in MmapSizes : parse_hello(c, mmap, 0)
    \/ \E speed \in Speeds : update_bandwidth_limits(speed)

SpecBW == InitBW /\ [][NextBW]_vars

\* the av-sync delay
InitAV == InitSession({0}) /\ InitControl({TRUE}, {0}, BOOLEAN, PlainWindowSources)

NextAV ==
    \/ \E c \in AVSyncCaps, latency \in Latencies : parse_hello(c, 0, latency)
    \/ \E v \in Delays, latency \in Latencies : set_av_sync_delay(v, latency)
    \/ \E delta \in Deltas, latency \in Latencies : set_av_sync_delta(delta, latency)
    \/ \E latency \in Latencies : update_av_sync_delay_total(latency)

SpecAV == InitAV /\ [][NextAV]_vars

\* the two recomputations side by side
InitRecompute ==
    InitSession({0}) /\ InitControl({TRUE}, ServerLimits, {TRUE}, AllWindowSources)

NextRecompute ==
    \/ \E speed \in {1, 1000} : update_bandwidth_limits(speed)
    \/ \E latency \in {0, 600} : update_av_sync_delay_total(latency)
    \/ \E v \in {150} : set_av_sync_delay(v, 0)
    \/ \E mmap \in MmapSizes : parse_hello(DefaultCaps, mmap, 0)

SpecRecompute == InitRecompute /\ [][NextRecompute]_vars

\* the hello
InitHello ==
    InitSession({0}) /\ InitControl({TRUE}, ServerLimits, BOOLEAN, PlainWindowSources)

NextHello ==
    \/ \E c \in HelloCaps, mmap \in MmapSizes : parse_hello(c, mmap, 0)
    \/ send_hello

SpecHello == InitHello /\ [][NextHello]_vars

\* the notifications
InitNotify == InitSession({0}) /\ NoControl

NextNotify ==
    \/ \E c \in NotifyCaps : parse_hello(c, 0, 0)
    \/ send_hello
    \/ \E nid \in Nids, user_callback \in Callbacks : notify(nid, user_callback)
    \/ \E nid \in Nids : notify_close(nid)
    \/ \E susp \in BOOLEAN : set_suspended(susp)
    \/ close_set
    \/ close_put
    \/ close_end

SpecNotify == InitNotify /\ [][NextNotify]_vars


(***************************************************************************)
(* Properties of the packet scheduler (Spec).                              *)
(***************************************************************************)
\* a call of next_packet() has returned and no new call has started:
\* np_result and np_seen are those of the last call
Returned == np_calls /\ np_pc = "idle"

\* the payloads of one tier returned so far, in order
DeliveredIds(kind) == Ids(SelectSeq(delivered, LAMBDA e : e.kind = kind))

\* the payload next_packet() has popped and not yet returned
InHand(kind) == IF np_pc = "more" /\ np_seen.popped = kind /\ np_result.packet # None
                  THEN <<np_result.packet>> ELSE <<>>

Count(seq, x) == Cardinality({i \in DOMAIN seq : seq[i] = x})

\* C1: a next_packet() call on an open session that is entered while
\* ordinary_packets is non-empty returns the oldest ordinary entry and removes
\* nothing from packet_queue; a call returns a bulk entry only if
\* ordinary_packets was empty when the call was entered and when it tested it.
C1_OrdinaryFirst ==
    (Returned /\ ~np_seen.closed) =>
        /\ np_seen.call_ord # <<>> =>
              /\ np_result.packet = np_seen.call_ord[1]
              /\ np_seen.popped = "ordinary"
              /\ IsPrefix(np_seen.call_bulk, Ids(packet_queue))
        /\ np_seen.popped = "bulk" =>
              /\ np_seen.call_ord = <<>>
              /\ np_seen.ord = 0

\* an ordinary entry was returned by a call entered while bulk entries were queued
C1_Witness ==
    /\ Returned /\ ~np_seen.closed
    /\ np_seen.call_ord # <<>>
    /\ np_seen.call_bulk # <<>>
    /\ np_result.packet = np_seen.call_ord[1]

\* C2: the ordinary payloads returned by successive next_packet() calls are a
\* prefix of the payloads send() appended, in the same order, and the bulk
\* payloads returned are a prefix of those appended to packet_queue.
C2_Fifo ==
    /\ IsPrefix(DeliveredIds("ordinary"), appended_ord)
    /\ IsPrefix(DeliveredIds("bulk"), appended_bulk)

\* two ordinary entries were returned with a bulk entry between them
C2_Witness ==
    /\ Len(delivered) = 3
    /\ delivered[1].kind = "ordinary"
    /\ delivered[2].kind = "bulk"
    /\ delivered[3].kind = "ordinary"

\* C3: in every interleaving of the control thread, the encoder thread and the
\* transport thread, no payload is returned twice, and while the session is
\* open every payload appended is in exactly one place: returned, popped by the
\* call in progress, or still queued.
C3_NoDupNoLoss ==
    \A id \in 1..(next_id - 1) :
        /\ Count(Ids(delivered), id) <= 1
        /\ ~closed =>
              Count(Ids(delivered), id)
                + Count(InHand("ordinary") \o InHand("bulk"), id)
                + Count(Ids(ordinary_packets) \o Ids(packet_queue), id) = 1

\* the control thread is inside send() while the transport thread is inside
\* next_packet(), with entries returned and entries queued
C3_Witness ==
    /\ ~closed
    /\ send_pc = "append"
    /\ np_pc = "more"
    /\ np_result.packet # None
    /\ delivered # <<>>
    /\ packet_queue # <<>>

C5_NothingToSend ==
    /\ (Returned /\ (np_seen.closed \/ (np_seen.ord = 0 /\ np_seen.bulk = 0))) =>
          /\ np_result = NoPacket
          /\ np_seen.popped = "none"
          /\ IsPrefix(np_seen.call_ord, Ids(ordinary_packets))
          /\ IsPrefix(np_seen.call_bulk, Ids(packet_queue))
    /\ (Returned /\ np_seen.call_ord = <<>> /\ np_seen.call_bulk = <<>>
          /\ np_seen.ret_mark = np_seen.call_mark) => np_result = NoPacket

\* next_packet() returned the empty tuple on a closed session with both queues filled
C5_Witness ==
    /\ Returned /\ np_seen.closed
    /\ np_result = NoPacket
    /\ np_seen.call_ord # <<>>
    /\ np_seen.call_bulk # <<>>
    /\ Ids(ordinary_packets) = np_seen.call_ord

\* C6 as stated: however many times close() is called, exactly one
\* end-of-queue marker is pushed, and only once the session is marked closed.
C6_ExactlyOneMarker ==
    /\ Len(encode_work_queue) <= 1
    /\ (close_calls >= 1 /\ main_pc = "idle") => Len(encode_work_queue) = 1
    /\ encode_work_queue # <<>> => closed

\* C6, amended: every call of close() pushes exactly one end-of-queue marker,
\* after it has marked the session closed; n calls of close() push n markers.
C6_OneMarkerPerClose ==
    /\ \A i \in DOMAIN encode_work_queue : encode_work_queue[i] = None
    /\ Len(encode_work_queue) = IF main_pc = "close_put" THEN close_calls - 1
                                                          ELSE close_calls
    /\ encode_work_queue # <<>> => closed
    /\ main_pc # "idle" => closed

\* close() has returned twice
C6_Witness ==
    /\ close_calls = 2
    /\ main_pc = "idle"
    /\ Len(encode_work_queue) = 2

(***************************************************************************)
(* Properties of the idle / grace timers (SpecIdle).                       *)
(***************************************************************************)
\* close() has returned at least once
CloseReturned == close_calls >= 1 /\ main_pc = "idle"

\* the pending source a handle names
Armed(handle, cb, delay) ==
    /\ handle # None
    /\ \E s \in sources : s.id = handle /\ s.cb = cb /\ s.delay = delay

\* C7: once close() has returned, neither the idle timer nor the grace timer
\* is armed, whatever happens later.
C7_CloseCancelsTimers ==
    CloseReturned =>
        /\ idle_timer = None
        /\ idle_grace_timer = None
        /\ sources = {}

\* C8: a timer callback that runs on a closed session is a no-op: it invokes
\* neither idle_timeout_cb nor idle_grace_timeout_cb and arms no timer.
C8_NoOpAfterClose ==
    [][(closed /\ last_fired' # last_fired) =>
          /\ idle_cb_calls' = idle_cb_calls
          /\ grace_cb_calls' = grace_cb_calls
          /\ sources' \subseteq sources]_vars

\* C9 as stated: for every idle_timeout > 0 the grace duration is at least
\* 10 seconds and strictly less than idle_timeout.
C9_GraceBelowTimeout ==
    idle_timeout > 0 =>
        /\ idle_grace_duration >= 10
        /\ idle_grace_duration < idle_timeout

\* C9, amended: for every idle_timeout > 0 the grace duration is at least 10
\* seconds; it is strictly less than idle_timeout exactly when idle_timeout
\* exceeds 10 seconds (for idle_timeout <= 10 it is 10, not below idle_timeout).
C9_GraceDuration ==
    idle_timeout > 0 =>
        /\ idle_grace_duration >= 10
        /\ (idle_grace_duration < idle_timeout) <=> (idle_timeout > 10)
        /\ idle_timeout <= 100 => idle_grace_duration = 10
        /\ idle_timeout > 100 =>
              /\ 10 * idle_grace_duration <= idle_timeout
              /\ idle_timeout < 10 * (idle_grace_duration + 1)

\* a session whose grace duration is a tenth of its idle_timeout, above 10 seconds
C9_Witness ==
    /\ idle_timeout > 100
    /\ idle_grace_duration > 10
    /\ idle_grace_timer # None

\* the delays (milliseconds) C10 states for the two timers
C10_StatedGraceDelay == (idle_timeout - Max(10, (idle_timeout * 10) \div 100)) * 1000

C10_StatedIdleDelay == idle_timeout * 1000

\* construction or user_event() on an open session was the last handler to run
JustArmed == last_op \in {"init", "user_event"} /\ ~closed

\* C10 as stated: after construction and after every user_event() of an open
\* session with idle_timeout > 0 the grace timer is armed for
\* idle_timeout - grace_duration and the idle timer for idle_timeout; with
\* idle_timeout <= 0 neither timer is ever armed.
C10_ArmedDelays ==
    /\ (JustArmed /\ idle_timeout > 0) =>
          /\ Armed(idle_grace_timer, "idle_grace_timedout", C10_StatedGraceDelay)
          /\ Armed(idle_timer, "idle_timedout", C10_StatedIdleDelay)
    /\ idle_timeout <= 0 =>
          (idle_timer = None /\ idle_grace_timer = None /\ sources = {})

\* C10, amended: the grace timer is armed for max(0, idle_timeout -
\* grace_duration), which is 0 when idle_timeout is below 10 seconds; the idle
\* timer is armed for idle_timeout; idle_timeout = 60s arms grace at 50s and
\* idle at 60s; with idle_timeout <= 0 neither timer is ever armed.
C10_ArmedDelaysClamped ==
    /\ (JustArmed /\ idle_timeout > 0) =>
          /\ Armed(idle_grace_timer, "idle_grace_timedout", Max(0, C10_StatedGraceDelay))
          /\ Armed(idle_timer, "idle_timedout", C10_StatedIdleDelay)
          /\ Cardinality(sources) = 2
    /\ (JustArmed /\ idle_timeout = 60) =>
          /\ Armed(idle_grace_timer, "idle_grace_timedout", 50000)
          /\ Armed(idle_timer, "idle_timedout", 60000)
    /\ idle_timeout <= 0 =>
          (idle_timer = None /\ idle_grace_timer = None /\ sources = {})

\* user_event() has re-armed both timers of a session with idle_timeout = 60s
C10_Witness ==
    /\ last_op = "user_event" /\ ~closed
    /\ idle_timeout = 60
    /\ Armed(idle_grace_timer, "idle_grace_timedout", 50000)
    /\ Armed(idle_timer, "idle_timedout", 60000)
    /\ idle_cb_calls > 0

\* the pending sources that run the callback cb
Pending(cb) == {s \in sources : s.cb = cb}

\* C11: at most one idle timer and at most one grace timer are pending in the
\* main loop, and a pending timer is the one recorded in idle_timer /
\* idle_grace_timer.
C11_OnePendingEach ==
    /\ Cardinality(Pending("idle_timedout")) <= 1
    /\ Cardinality(Pending("idle_grace_timedout")) <= 1
    /\ \A s \in Pending("idle_timedout") : s.id = idle_timer
    /\ \A s \in Pending("idle_grace_timedout") : s.id = idle_grace_timer
    /\ sources = Pending("idle_timedout") \cup Pending("idle_grace_timedout")

\* user_event() has replaced timers that were pending, after a callback ran
C11_Witness ==
    /\ last_op = "user_event"
    /\ idle_cb_calls > 0
    /\ Cardinality(Pending("idle_timedout")) = 1
    /\ Cardinality(Pending("idle_grace_timedout")) = 1
    /\ idle_grace_timer > 3

\* g and i are the grace and the idle source armed by one event: the event
\* arms the grace timer first and the idle timer right after it
SameEvent(g, i) ==
    /\ g.cb = "idle_grace_timedout"
    /\ i.cb = "idle_timedout"
    /\ i.id = g.id + 1

\* C12, the delays: for every idle_timeout > 0 the delay armed for the grace
\* timer is strictly smaller than the delay armed for the idle timer, and of
\* two timers armed by one event the grace timer is due first.
C12_GraceDueFirst ==
    /\ idle_timeout > 0 =>
          grace_delay(idle_timeout, idle_grace_duration) < idle_delay(idle_timeout)
    /\ \A g \in sources, i \in sources :
          SameEvent(g, i) => (g.delay < i.delay /\ g.remaining < i.remaining)

\* C12, the firing order: when the idle callback fires, the grace timer armed
\* by the same event is no longer pending.
C12_IdleFiresLast ==
    (last_fired'.cb = "idle_timedout" /\ last_fired' # last_fired) =>
        \A g \in sources : ~(g.cb = "idle_grace_timedout" /\ g.id + 1 = last_fired'.id)

\* C12: when both timers are armed by the same activity event (or by
\* construction) and no further activity occurs, the grace callback fires
\* before the idle callback: the grace delay is strictly smaller than the idle
\* delay for every idle_timeout > 0.
C12_GraceBeforeIdle == []C12_GraceDueFirst /\ [][C12_IdleFiresLast]_vars

\* the two timers armed by construction have both fired, the grace timer first
C12_Witness ==
    /\ last_op = "idle_timedout"
    /\ last_fired.cb = "idle_timedout"
    /\ last_fired.id = 2
    /\ grace_cb_calls = 1
    /\ idle_cb_calls = 1

(***************************************************************************)
(* Properties of update_bandwidth_limits() (SpecBW).                       *)
(***************************************************************************)
\* update_bandwidth_limits() was the last handler to run, mmap being inactive
AfterUpdate == last_op = "update_bandwidth_limits" /\ mmap_size <= 0

\* C13: with mmap inactive, update_bandwidth_limits() sets the soft limit to
\* min(hard, candidate) if the hard limit is positive, else to the candidate,
\* where the candidate is the congestion send speed if detection is enabled
\* and the speed does not exceed 20*1024*1024, else 0; a speed of 25 Mbit/s
\* with no hard limit gives 0.
C13_SoftLimit ==
    AfterUpdate =>
        LET candidate == IF BANDWIDTH_DETECTION
                              /\ avg_congestion_send_speed <= 20 * 1024 * 1024
                           THEN avg_congestion_send_speed
                           ELSE 0
        IN /\ bandwidth_limit > 0 =>
                 /\ soft_bandwidth_limit <= bandwidth_limit
                 /\ soft_bandwidth_limit <= candidate
                 /\ soft_bandwidth_limit \in {bandwidth_limit, candidate}
           /\ bandwidth_limit <= 0 => soft_bandwidth_limit = candidate
           /\ (avg_congestion_send_speed = 25 * 1024 * 1024 /\ bandwidth_limit <= 0) =>
                 soft_bandwidth_limit = 0

\* 25 Mbit/s observed, detection enabled, no hard limit: the soft limit drops
\* to 0 after an earlier pass had given the windows a limit
C13_Witness ==
    /\ AfterUpdate
    /\ BANDWIDTH_DETECTION
    /\ avg_congestion_send_speed = 25 * 1024 * 1024
    /\ bandwidth_limit = 0
    /\ soft_bandwidth_limit = 0
    /\ \E wid \in DOMAIN window_sources : window_sources[wid].bandwidth_limit > 1

\* C14: with a positive hard limit and mmap inactive, the soft limit after
\* update_bandwidth_limits() is positive and at most the hard limit, for every
\* congestion speed and with detection enabled or disabled.
C14_HardOnlyTightens ==
    (AfterUpdate /\ bandwidth_limit > 0) =>
        (soft_bandwidth_limit > 0 /\ soft_bandwidth_limit <= bandwidth_limit)

\* width*height + damaged pixel count, 0 for a suspended window
Weight(ws) ==
    IF ws.suspended
      THEN 0
      ELSE ws.window_dimensions[1] * ws.window_dimensions[2] + ws.damage_pixels

RECURSIVE SumOver(_, _, _)
\* the sum of f[wid] over the window ids in S
SumOver(f, S, n) ==
    IF n = 0 THEN 0
             ELSE (IF n \in S THEN f[n] ELSE 0) + SumOver(f, S, n - 1)

Wids == DOMAIN window_sources

Weights == [wid \in Wids |-> Weight(window_sources[wid])]

Limits == [wid \in Wids |-> window_sources[wid].bandwidth_limit]

TotalWeight == SumOver(Weights, Wids, Len(window_sources))

\* floor(s*w/t) for s, w >= 0 and t > 0, from s = (s div t)*t + (s mod t)
FloorShare(s, w, t) == (s \div t) * w + ((s % t) * w) \div t

C16_NeverOvercommitted ==
    (AfterUpdate /\ soft_bandwidth_limit > 0 /\ TotalWeight > 0) =>
        /\ \A wid \in Wids : ~window_sources[wid].suspended => Limits[wid] >= 1
        /\ SumOver(Limits, Wids, Len(window_sources)) <= soft_bandwidth_limit

\* the windows whose share floor(soft_limit * weight / total_weight) is 0
ZeroShare ==
    {wid \in Wids :
        \/ Weights[wid] = 0
        \/ /\ soft_bandwidth_limit < TotalWeight
           /\ soft_bandwidth_limit * Weights[wid] < TotalWeight}

\* C16, amended: with total weight > 0 and soft limit > 0, every window's
\* limit is >= 1; the windows whose share rounds down to 0 (zero-weight and
\* suspended windows among them) are written 1, the others together get at
\* most the soft limit, so the sum of the limits written is at most the soft
\* limit plus the number of windows whose share is 0.
C16_OvercommittedByFloorOnly ==
    (AfterUpdate /\ soft_bandwidth_limit > 0 /\ TotalWeight > 0) =>
        /\ \A wid \in Wids : Limits[wid] >= 1
        /\ \A wid \in ZeroShare : Limits[wid] = 1
        /\ SumOver(Limits, Wids \ ZeroShare, Len(window_sources)) <= soft_bandwidth_limit
        /\ SumOver(Limits, Wids, Len(window_sources))
              <= soft_bandwidth_limit + Cardinality(ZeroShare)

\* two active windows of equal weight under a soft limit of 1 get 1 each
C16_Witness ==
    /\ AfterUpdate
    /\ soft_bandwidth_limit = 1
    /\ Len(window_sources) = 2
    /\ \A wid \in Wids : ~window_sources[wid].suspended /\ Weights[wid] = 100
    /\ Limits = <<1, 1>>

\* C17: update_bandwidth_limits() never fails with a division by zero; with
\* a positive soft limit and a total weight of 0 it completes normally.
C17_NoDivisionByZero == ~bw_raised

\* C18: update_bandwidth_limits() leaves the bandwidth_limit of every
\* zero-weight (suspended) window unchanged.
C18_ZeroWeightUntouched ==
    [][last_op' = "update_bandwidth_limits" =>
          \A wid \in Wids :
              Weights[wid] = 0 =>
                  window_sources'[wid].bandwidth_limit = Limits[wid]]_vars

\* C19: with mmap active (mmap_size > 0), update_bandwidth_limits() changes
\* neither soft_bandwidth_limit nor any window's bandwidth_limit, for any
\* congestion speed and hard limit.
C19_MmapSkipsShaping ==
    [][(last_op' = "update_bandwidth_limits" /\ mmap_size > 0) =>
          /\ soft_bandwidth_limit' = soft_bandwidth_limit
          /\ window_sources' = window_sources
          /\ ~bw_raised']_vars

\* update_bandwidth_limits() ran with mmap active: the soft limit and the
\* window limits of an earlier pass are still there, whatever the speed is now
C19_Witness ==
    /\ last_op = "update_bandwidth_limits"
    /\ mmap_size > 0
    /\ avg_congestion_send_speed = 0
    /\ soft_bandwidth_limit = 1000
    /\ \E wid \in Wids : Limits[wid] > 1

(***************************************************************************)
(* Properties of the av-sync delay (SpecAV).                               *)
(***************************************************************************)
Clamp(x, lo, hi) == IF x < lo THEN lo ELSE IF x > hi THEN hi ELSE x

\* C20: in every reachable state av_sync_delay_total is in [0, 1000], and
\* when sync is enabled it equals
\* clamp(client_delay + delta + encoder_latency, 0, 1000).
C20_TotalClamped ==
    /\ av_sync_delay_total \in 0..1000
    /\ av_sync =>
          av_sync_delay_total
              = Clamp(av_sync_delay + av_sync_delta + encoder_latency, 0, 1000)

\* a sum above 1000 has been clamped after a negative one had been
C20_Witness ==
    /\ av_sync
    /\ last_op = "set_av_sync_delta"
    /\ av_sync_delay + av_sync_delta + encoder_latency > 1000
    /\ av_sync_delay_total = 1000
    /\ \A wid \in Wids : window_sources[wid].av_sync_delay = 1000
    /\ Len(window_sources) > 0

\* C21: when av-sync is disabled for the session, av_sync_delay_total is 0
\* after every recomputation, whatever the client delay, the delta and the
\* encoder latency are.
C21_DisabledIsZero == ~av_sync => av_sync_delay_total = 0

\* av-sync is disabled and a recomputation has run on a delay, a delta and a
\* latency that add up to more than 0
C21_Witness ==
    /\ ~av_sync
    /\ last_op = "update_av_sync_delay_total"
    /\ av_sync_delay > 0 /\ av_sync_delta > 0 /\ encoder_latency > 0
    /\ av_sync_delay_total = 0

\* a handler that recomputes the av-sync delay was the last to run
AfterRecompute ==
    last_op \in {"set_av_sync_delay", "set_av_sync_delta",
                 "update_av_sync_delay_total", "parse_hello"}

\* C22: after every av-sync recomputation every registered window source has
\* been given the new total: each window's av-sync delay equals
\* av_sync_delay_total.
C22_Broadcast ==
    AfterRecompute =>
        \A wid \in Wids : window_sources[wid].av_sync_delay = av_sync_delay_total

\* a recomputation has replaced the delay of MaxWindows window sources by a
\* total that is neither 0 nor 1000
C22_Witness ==
    /\ av_sync
    /\ last_op = "update_av_sync_delay_total"
    /\ Len(window_sources) = MaxWindows
    /\ av_sync_delay_total \in 1..999
    /\ encoder_latency < 0
    /\ \A wid \in Wids : window_sources[wid].av_sync_delay = av_sync_delay_total

(***************************************************************************)
(* Properties of repeated recomputations (SpecRecompute).                  *)
(***************************************************************************)
\* update_bandwidth_limits() is called right after update_bandwidth_limits(),
\* the congestion speed being the same (nothing else has run in between, so
\* the flags, the hard limit and the window statistics are the same too)
SecondBandwidthUpdate ==
    /\ last_op = "update_bandwidth_limits"
    /\ last_op' = "update_bandwidth_limits"
    /\ avg_congestion_send_speed' = avg_congestion_send_speed

\* update_av_sync_delay_total() is called right after a recomputation of the
\* av-sync delay, the encoder latency being the same
SecondAvSyncUpdate ==
    /\ AfterRecompute
    /\ last_op' = "update_av_sync_delay_total"
    /\ encoder_latency' = encoder_latency

\* C23: update_av_sync_delay_total() or update_bandwidth_limits() called
\* twice in a row with identical inputs leaves the state the first call left:
\* the same total / soft limit and the same per-window values.
C23_Idempotent ==
    [][/\ SecondBandwidthUpdate =>
              /\ soft_bandwidth_limit' = soft_bandwidth_limit
              /\ window_sources' = window_sources
              /\ bw_raised' = bw_raised
       /\ SecondAvSyncUpdate =>
              /\ av_sync_delay_total' = av_sync_delay_total
              /\ window_sources' = window_sources]_vars

\* update_bandwidth_limits() has been called a second time on a soft limit of
\* 1000 shared by two windows, after an av-sync delay was broadcast
C23_Witness ==
    /\ repeated
    /\ last_op = "update_bandwidth_limits"
    /\ mmap_size = 0
    /\ soft_bandwidth_limit = 1000
    /\ Len(window_sources) = 2
    /\ Limits = <<250, 750>>
    /\ av_sync_delay_total > 0

(***************************************************************************)
(* Properties of parse_hello() (SpecHello).                                *)
(***************************************************************************)
\* a pair (w, h) with 0 < w < 32768 and 0 < h < 32768
InRange(pair) ==
    /\ pair # NoPair
    /\ 0 < pair[1] /\ pair[1] < 32768
    /\ 0 < pair[2] /\ pair[2] < 32768

\* C24: after parse_hello() desktop_size is either unset or a pair (w, h)
\* with 0 < w < 32768 and 0 < h < 32768: a client-supplied pair with a
\* component out of range, e.g. (40000, 10), leaves it unset, an in-range pair
\* is stored unchanged.
C24_DesktopSize ==
    /\ desktop_size = NoPair \/ InRange(desktop_size)
    /\ last_op = "parse_hello" =>
          /\ InRange(client_caps.desktop_size) => desktop_size = client_caps.desktop_size
          /\ ~InRange(client_caps.desktop_size) => desktop_size = NoPair
          /\ client_caps.desktop_size = <<40000, 10>> => desktop_size = NoPair

\* a hello with desktop_size (40000, 10) has been parsed after the hello was sent
C24_Witness ==
    /\ last_op = "parse_hello"
    /\ hello_sent
    /\ client_caps.desktop_size = <<40000, 10>>
    /\ desktop_size = NoPair

(***************************************************************************)
(* Properties of the notifications (SpecNotify).                           *)
(***************************************************************************)
\* the step is a call of notify() / of notify_close()
NotifyStep == last_op' = "notify" /\ notify_call'.op = "notify"

NotifyCloseStep == last_op' = "notify_close" /\ notify_call'.op = "notify_close"

\* the step queues nothing and sends no signal to the transport
QueuesNothing == ordinary_packets' = ordinary_packets /\ signals' = signals

\* the step queues one ordinary packet of the given parts, and nothing else
QueuesOne(parts) ==
    /\ Len(ordinary_packets') = Len(ordinary_packets) + 1
    /\ SubSeq(ordinary_packets', 1, Len(ordinary_packets)) = ordinary_packets
    /\ ordinary_packets'[Len(ordinary_packets')].parts = parts

\* C25: notify() returns False and changes no state (notification_callbacks
\* and ordinary_packets unchanged, no transport signal) whenever the client
\* has not negotiated notifications or the session is suspended; in every
\* other case it returns True.
C25_NotifyRefused ==
    [][NotifyStep =>
          IF ~send_notifications \/ suspended
            THEN /\ notify_call'.result = FALSE
                 /\ notification_callbacks' = notification_callbacks
                 /\ QueuesNothing
            ELSE notify_call'.result = TRUE]_vars

\* notify() with a user callback has been refused on a suspended session that
\* has negotiated notifications and sent its hello
C25_Witness ==
    /\ last_op = "notify"
    /\ notify_call.result = FALSE
    /\ notify_call.user_callback # None
    /\ notify_call.nid \notin DOMAIN notification_callbacks
    /\ send_notifications /\ suspended /\ hello_sent /\ protocol

\* C26 as stated: with notifications negotiated and the session not
\* suspended, notify(nid, ..., user_callback) before send_hello() records the
\* callback under nid and queues no packet; after send_hello() it queues
\* exactly one notify_show packet; notify_close(nid) after send_hello() queues
\* a notify_close packet.
C26_GatedOnHello ==
    [][(send_notifications /\ ~suspended) =>
          /\ (NotifyStep /\ ~hello_sent /\ notify_call'.user_callback # None) =>
                /\ notify_call'.nid \in DOMAIN notification_callbacks'
                /\ notification_callbacks'[notify_call'.nid] = notify_call'.user_callback
                /\ QueuesNothing
          /\ (NotifyStep /\ hello_sent) => QueuesOne(<<"notify_show", notify_call'.nid>>)
          /\ (NotifyCloseStep /\ hello_sent) =>
                QueuesOne(<<"notify_close", notify_call'.nid>>)]_vars

\* C26, amended: the same, the packets being queued only while the
\* transport is attached (self.protocol is not None, which close() makes it);
\* on a closed session notify() and notify_close() queue nothing.
C26_GatedOnHelloAndProtocol ==
    [][(send_notifications /\ ~suspended) =>
          /\ (NotifyStep /\ ~hello_sent /\ notify_call'.user_callback # None) =>
                /\ notify_call'.nid \in DOMAIN notification_callbacks'
                /\ notification_callbacks'[notify_call'.nid] = notify_call'.user_callback
                /\ QueuesNothing
          /\ (NotifyStep /\ hello_sent /\ protocol) =>
                QueuesOne(<<"notify_show", notify_call'.nid>>)
          /\ (NotifyCloseStep /\ hello_sent /\ protocol) =>
                QueuesOne(<<"notify_close", notify_call'.nid>>)
          /\ ((NotifyStep \/ NotifyCloseStep) /\ ~protocol) => QueuesNothing]_vars

\* the parts of the queued ordinary packets, in order
QueuedParts == [i \in 1..Len(ordinary_packets) |-> ordinary_packets[i].parts]

\* notify(7, ..., callback) before the hello recorded the callback and queued
\* nothing; after the hello, notify_close(7) has queued its packet
C26_Witness ==
    /\ last_op = "notify_close"
    /\ 7 \in DOMAIN notification_callbacks
    /\ QueuedParts = <<(<<"hello">>), <<"notify_close", 7>> >>

\* C27 as stated: notify_close(nid) queues a notify_close packet if and only
\* if notifications are negotiated, the session is not suspended and hello
\* has been sent; it leaves notification_callbacks unchanged.
C27_NotifyCloseIff ==
    [][NotifyCloseStep =>
          /\ notification_callbacks' = notification_callbacks
          /\ IF send_notifications /\ ~suspended /\ hello_sent
               THEN QueuesOne(<<"notify_close", notify_call'.nid>>)
               ELSE QueuesNothing]_vars

\* C27, amended: notify_close(nid) queues a notify_close packet if and only
\* if notifications are negotiated, the session is not suspended, hello has
\* been sent and the transport is attached (close() has not detached it); it
\* leaves notification_callbacks unchanged.
C27_NotifyCloseIffAttached ==
    [][NotifyCloseStep =>
          /\ notification_callbacks' = notification_callbacks
          /\ IF send_notifications /\ ~suspended /\ hello_sent /\ protocol
               THEN QueuesOne(<<"notify_close", notify_call'.nid>>)
               ELSE QueuesNothing]_vars

\* notify_close(7) has queued its packet and left the callback of 7 in place
C27_Witness ==
    /\ last_op = "notify_close"
    /\ notify_call.nid = 7
    /\ notification_callbacks = [nid \in {7} |-> 2]
    /\ Len(ordinary_packets) = 3
    /\ ordinary_packets[3].parts = <<"notify_close", 7>>
    /\ ordinary_packets[3].will_have_more

(***************************************************************************)
(* Properties of send() and of its wakeup signal (Spec).                   *)
(***************************************************************************)
\* a step that appends to ordinary_packets issues one wakeup signal, and a
\* step that issues a wakeup signal appends one ordinary entry
C28_AppendSignals ==
    /\ Len(appended_ord') # Len(appended_ord) =>
          (Len(appended_ord') = Len(appended_ord) + 1 /\ signals' = signals + 1)
    /\ signals' # signals =>
          (signals' = signals + 1 /\ Len(appended_ord') = Len(appended_ord) + 1)

\* C28: every ordinary packet appended by send() is followed, within the same
\* send() call, by one source_has_more() signal to the transport: the number
\* of signals issued equals the number of ordinary entries appended, and no
\* entry is appended without a signal.
C28_SignalPerAppend == [](signals = Len(appended_ord)) /\ [][C28_AppendSignals]_vars

\* three packets have been sent and signalled, one of them has been taken by
\* next_packet() and the session has been closed since
C28_Witness ==
    /\ signals = MaxPackets
    /\ Len(appended_ord) = MaxPackets
    /\ Len(ordinary_packets) < MaxPackets
    /\ ~protocol

(***************************************************************************)
(* Properties of idle_timedout() (SpecIdle).                               *)
(***************************************************************************)
\* the step is idle_timedout() run for a due idle source
IdleTimerFires == last_fired'.cb = "idle_timedout" /\ last_fired' # last_fired

\* C29: when the idle timer fires on an open session, idle_timedout() drops
\* the handle that fired, invokes idle_timeout_cb exactly once and re-arms the
\* idle timer, and only it, for a full idle_timeout (idle_timeout * 1000 ms,
\* under a new handle); the grace handle and the pending grace source are left
\* unchanged.
C29_IdleRearmsOnlyIdle ==
    [][(IdleTimerFires /\ ~closed) =>
          /\ idle_cb_calls' = idle_cb_calls + 1
          /\ grace_cb_calls' = grace_cb_calls
          /\ idle_grace_timer' = idle_grace_timer
          /\ Pending("idle_grace_timedout")' = Pending("idle_grace_timedout")
          /\ \A s \in sources' : s.id # last_fired'.id
          /\ idle_timer' = next_source
          /\ idle_timer' # last_fired'.id
          /\ Pending("idle_timedout")' =
                {[id |-> next_source, cb |-> "idle_timedout",
                  delay |-> idle_timeout * 1000, remaining |-> idle_timeout * 1000]}]_vars

\* the idle timer has fired twice on an open session and is armed again for
\* the full 60 seconds, the grace timer having fired once and not being armed
C29_Witness ==
    /\ last_op = "idle_timedout"
    /\ ~closed
    /\ idle_timeout = 60
    /\ idle_cb_calls = 2
    /\ grace_cb_calls = 1
    /\ idle_grace_timer = None
    /\ Pending("idle_timedout") =
          {[id |-> idle_timer, cb |-> "idle_timedout", delay |-> 60000, remaining |-> 60000]}

(***************************************************************************)
(* Properties of an inactive session (SpecIdleFair).                       *)
(***************************************************************************)
\* the model can still run the callbacks of the session: the idle callback has
\* run k times, there is a handle left for the timer it re-arms, and a pending
\* grace timer can still fire
CanFire(k) ==
    /\ idle_cb_calls = k
    /\ next_source <= MaxSources
    /\ grace_cb_calls < MaxCallbacks \/ Pending("idle_grace_timedout") = {}

\* on a session with idle_timeout > 0 whose idle callback has run k times,
\* the idle callback runs once more, unless the session is closed or
\* user_event() is called
C30_IdleFiresAgain ==
    \A k \in 0..(MaxCallbacks - 1) :
        [](((idle_timeout > 0 /\ ~closed /\ CanFire(k))
              => <>(idle_cb_calls > k \/ closed \/ last_op = "user_event")))

\* a step that runs the grace callback leaves no grace timer behind, and only
\* user_event() arms a grace timer
C30_GraceOncePerEvent ==
    /\ (last_fired'.cb = "idle_grace_timedout" /\ last_fired' # last_fired) =>
          /\ grace_cb_calls' = grace_cb_calls + 1
          /\ idle_grace_timer' = None
          /\ Pending("idle_grace_timedout")' = {}
    /\ (\E s \in sources' : s.cb = "idle_grace_timedout" /\ s.id >= next_source) =>
          last_op' = "user_event"

\* C30: on a session with idle_timeout > 0 that is never closed and receives
\* no further user_event(), under fair timer firing the idle callback fires
\* again and again (as often as the bound on the callbacks allows), while the
\* grace callback fires at most once after the last activity event.
C30_IdleForeverGraceOnce == C30_IdleFiresAgain /\ [][C30_GraceOncePerEvent]_vars

\* with no user_event() after construction (no handle was spent on one) the
\* idle callback has run as often as the bound allows, the grace callback once
C30_Witness ==
    /\ ~closed
    /\ idle_timeout > 0
    /\ idle_cb_calls = MaxCallbacks
    /\ grace_cb_calls = 1
    /\ next_source = MaxCallbacks + 3
    /\ idle_timer # None

(***************************************************************************)
(* Properties of user_event() (SpecEvent).                                 *)
(***************************************************************************)
\* the step is a call of user_event()
UserEventStep == last_op' = "user_event"

\* C31: after user_event(), notification_callbacks holds no entry for the
\* reserved idle notification id and every other entry is unchanged; a
\* notify_close for the reserved id is requested if and only if such an entry
\* was present before the call (and it queues the packet as notify_close()
\* does); no_idle() is invoked if and only if the session was idle.
C31_UserEvent ==
    [][UserEventStep =>
          /\ XPRA_IDLE_NOTIFICATION_ID \notin DOMAIN notification_callbacks'
          /\ DOMAIN notification_callbacks' =
                DOMAIN notification_callbacks \ {XPRA_IDLE_NOTIFICATION_ID}
          /\ \A nid \in DOMAIN notification_callbacks' :
                notification_callbacks'[nid] = notification_callbacks[nid]
          /\ user_event_seen'.notify_close =
                (XPRA_IDLE_NOTIFICATION_ID \in DOMAIN notification_callbacks)
          /\ IF user_event_seen'.notify_close
                  /\ send_notifications /\ ~suspended /\ hello_sent /\ protocol
               THEN QueuesOne(<<"notify_close", XPRA_IDLE_NOTIFICATION_ID>>)
               ELSE QueuesNothing
          /\ user_event_seen'.no_idle = idle]_vars

\* user_event() on an idle session has dropped the callback of the reserved
\* id, kept the callback of notification 7, and queued the notify_close
C31_Witness ==
    /\ last_op = "user_event"
    /\ user_event_seen = [no_idle |-> TRUE, notify_close |-> TRUE]
    /\ notification_callbacks = [nid \in {7} |-> 2]
    /\ Len(ordinary_packets) > 0
    /\ ordinary_packets[Len(ordinary_packets)].parts =
          <<"notify_close", XPRA_IDLE_NOTIFICATION_ID>>

(***************************************************************************)
(* update_bandwidth_limits() with no soft limit (SpecBW).                  *)
(***************************************************************************)
\* C32: when the soft limit that update_bandwidth_limits() computes is <= 0,
\* the call updates soft_bandwidth_limit and writes no per-window limit: every
\* window's bandwidth_limit keeps the value it had before the call, a limit
\* assigned by an earlier pass included.
C32_NoSoftLimitNoWrite ==
    [][(last_op' = "update_bandwidth_limits" /\ mmap_size <= 0
          /\ soft_bandwidth_limit' <= 0) =>
          LET candidate == IF BANDWIDTH_DETECTION
                                /\ avg_congestion_send_speed' <= 20 * 1024 * 1024
                             THEN avg_congestion_send_speed'
                             ELSE 0
          IN /\ soft_bandwidth_limit' = IF bandwidth_limit > 0
                                          THEN Min(bandwidth_limit, candidate)
                                          ELSE candidate
             /\ \A wid \in DOMAIN window_sources :
                   window_sources'[wid].bandwidth_limit = window_sources[wid].bandwidth_limit
             /\ window_sources' = window_sources
             /\ ~bw_raised']_vars

\* the soft limit has dropped from 1000 to 0 and the limits of the earlier
\* pass are still on the windows
C32_Witness ==
    /\ last_op = "update_bandwidth_limits"
    /\ mmap_size = 0
    /\ bandwidth_limit = 1000
    /\ soft_bandwidth_limit = 0
    /\ \E wid \in Wids : Limits[wid] > 1

(***************************************************************************)
(* The hard limit parse_hello() negotiates (SpecBW).                       *)
(***************************************************************************)
\* C33: after parse_hello(), if mmap is active the hard bandwidth_limit is 0;
\* otherwise it is the client's declared limit when the server limit is <= 0,
\* and min(server limit, client limit) when the server limit is positive, so
\* that with a positive server limit it never exceeds the server limit.
C33_NegotiatedLimit ==
    last_op = "parse_hello" =>
        IF mmap_size > 0
          THEN bandwidth_limit = 0
          ELSE IF server_bandwidth_limit <= 0
                 THEN bandwidth_limit = client_caps.bandwidth_limit
                 ELSE /\ bandwidth_limit <= server_bandwidth_limit
                      /\ bandwidth_limit <= client_caps.bandwidth_limit
                      /\ bandwidth_limit \in {server_bandwidth_limit,
                                              client_caps.bandwidth_limit}

\* a client asking for 2000 has been given the server's 1000
C33_Witness ==
    /\ last_op = "parse_hello"
    /\ mmap_size = 0
    /\ server_bandwidth_limit = 1000
    /\ client_caps.bandwidth_limit = 2000
    /\ bandwidth_limit = 1000

(***************************************************************************)
(* close() against send() and next_packet() (Spec).                        *)
(***************************************************************************)
\* the ordinary packets appended once the close event was set, and those of
\* them that next_packet() has returned
Late(id) == closed /\ id >= close_mark

LateAppended == {i \in 1..Len(appended_ord) : Late(appended_ord[i])}

LateReturned == {i \in 1..Len(delivered) : Late(delivered[i].id)}

\* a send() that starts once close() has returned is a no-op: with the
\* transport detached and no send() in progress, nothing is appended to
\* ordinary_packets and no signal is issued
C34_SendAfterClose ==
    (~protocol /\ send_pc = "idle") =>
        /\ send_pc' = "idle"
        /\ appended_ord' = appended_ord
        /\ signals' = signals
        /\ Len(ordinary_packets') <= Len(ordinary_packets)

\* C34 as stated: once close() has returned, send(), send_more() and
\* send_async() are no-ops (ordinary_packets is not extended and no
\* source_has_more() signal is issued, in every later state), and in any
\* interleaving of close() with send() no ordinary packet appended during or
\* after close is ever returned by next_packet().
C34_NothingLateReturned == [][C34_SendAfterClose]_vars /\ [](LateReturned = {})

\* a call of next_packet() returns a packet appended once the close event was
\* set only if the call tested is_closed() before the event was set
C34_LateOnlyByEarlyCall ==
    (np_pc = "more" /\ Late(np_result.packet)) =>
        (~np_seen.closed /\ np_seen.call_mark <= close_mark)

\* C34, amended: a send() that starts once close() has returned is a no-op;
\* a next_packet() that starts once the close event is set returns nothing,
\* so that a packet appended during or after close() is returned only by the
\* one call of next_packet() that tested is_closed() before the event was
\* set: at most one such packet is ever returned.
C34_OneLateReturnedAtMost ==
    /\ [][C34_SendAfterClose]_vars
    /\ [](Cardinality(LateReturned) <= 1 /\ C34_LateOnlyByEarlyCall)

\* close() has returned, two send() calls that started during close() have
\* appended their packets, one has been returned by the next_packet() that was
\* in progress, and a send() after close() has changed nothing
C34_Witness ==
    /\ ~protocol /\ main_pc = "idle" /\ send_pc = "idle" /\ np_pc = "idle"
    /\ Cardinality(LateAppended) = 2
    /\ Cardinality(LateReturned) = 1
    /\ Len(ordinary_packets) = 1

(***************************************************************************)
(* Progress of the packet scheduler on an open session (SpecPull).         *)
(***************************************************************************)
\* the packet id is queued in the ordinary / in the bulk tier, has been
\* returned by next_packet()
QueuedOrdinary(id) == \E i \in 1..Len(ordinary_packets) : ordinary_packets[i].id = id

QueuedBulk(id) == \E i \in 1..Len(packet_queue) : packet_queue[i].id = id

ReturnedPacket(id) == \E i \in 1..Len(delivered) : delivered[i].id = id

\* every ordinary packet queued by send() is eventually returned
C35_OrdinaryReturned ==
    \A id \in 1..MaxPackets : [](QueuedOrdinary(id) => <>ReturnedPacket(id))

\* a bulk packet queued while no ordinary packet is queued is eventually
\* returned, unless an ordinary packet arrives first: with the ordinary
\* packets all eventually returned, it is returned once they stop arriving
C35_BulkReturned ==
    \A id \in 1..MaxPackets :
        []((QueuedBulk(id) /\ ordinary_packets = <<>>)
              => <>(ReturnedPacket(id) \/ ordinary_packets # <<>>))

\* C35: if the session stays open and the transport keeps calling
\* next_packet(), every ordinary packet queued by send() is eventually
\* returned; a bulk packet is eventually returned provided ordinary packets
\* stop arriving (each ordinary packet that arrives may be returned before it).
C35_Progress == C35_OrdinaryReturned /\ C35_BulkReturned

\* the bulk packet queued first has been returned last, after the two
\* ordinary packets that arrived while it was waiting
C35_Witness ==
    /\ ~closed
    /\ Len(delivered) = 3
    /\ delivered[1] = [id |-> 2, kind |-> "ordinary"]
    /\ delivered[2] = [id |-> 3, kind |-> "ordinary"]
    /\ delivered[3] = [id |-> 1, kind |-> "bulk"]

(***************************************************************************)
(* Properties of WebSocketRequestHandler.do_GET (SpecWS).                  *)
(***************************************************************************)
\* the handler did op(arg)
Did(op, arg) == \E i \in 1..Len(websocket.trace) : websocket.trace[i] = [op |-> op, arg |-> arg]

\* the three checks of the upgrade pass
ChecksPass ==
    /\ websocket.request.version \in {"7", "8", "13"}
    /\ \E i \in 1..Len(websocket.request.protocols) : websocket.request.protocols[i] = "binary"
    /\ websocket.request.key # Missing

\* the request is treated as an upgrade
TreatedAsUpgrade ==
    \/ websocket.request.only_upgrade
    \/ websocket.request.upgrade \in {"websocket", "WebSocket"}

\* the whole 101 response was written, flushed and the file closed before
\* new_websocket_client was called
InvokedAfter101 ==
    /\ Len(websocket.trace) >= 9
    /\ websocket.trace[1] = [op |-> "write", arg |-> "HTTP/1.1 101 Switching Protocols"]
    /\ websocket.trace[2] = [op |-> "write", arg |-> "Upgrade: websocket"]
    /\ websocket.trace[3] = [op |-> "write", arg |-> "Connection: Upgrade"]
    /\ websocket.trace[4].op = "write"
    /\ websocket.trace[5] = [op |-> "write", arg |-> "Sec-WebSocket-Protocol: binary"]
    /\ websocket.trace[6] = [op |-> "write", arg |-> ""]
    /\ websocket.trace[7].op = "flush"
    /\ websocket.trace[8].op = "close"
    /\ websocket.trace[9].op = "new_websocket_client"
    /\ \A i \in 1..8 : websocket.trace[i].op # "new_websocket_client"

\* C36: in do_GET, new_websocket_client is invoked only after a complete
\* "101 Switching Protocols" response has been written, which requires a
\* Sec-WebSocket-Version in {7, 8, 13}, "binary" among the offered protocols
\* and a Sec-WebSocket-Key; if any check fails, a 403 error is sent,
\* new_websocket_client is never invoked and handle_request is not run; and
\* handle_request runs only for requests that are not treated as upgrades.
C36_UpgradeOrError ==
    websocket.pc = "done" =>
        /\ Did("new_websocket_client", "") =>
              (InvokedAfter101 /\ ChecksPass /\ TreatedAsUpgrade)
        /\ (TreatedAsUpgrade /\ ~ChecksPass) =>
              /\ Did("send_error", "403")
              /\ ~Did("new_websocket_client", "")
              /\ ~Did("handle_request", "")
              /\ ~Did("write", "HTTP/1.1 101 Switching Protocols")
        /\ Did("handle_request", "") => ~TreatedAsUpgrade
        /\ TreatedAsUpgrade => ~Did("handle_request", "")

\* an upgrade request with version 13 that offers "base64, binary" has been
\* answered with 403: the piece " binary" is not "binary"
C36_Witness ==
    /\ websocket.pc = "done"
    /\ websocket.request.upgrade = "WebSocket"
    /\ websocket.request.version = "13"
    /\ websocket.request.protocols = <<"base64", " binary">>
    /\ websocket.request.key # Missing
    /\ websocket.trace = << [op |-> "send_error", arg |-> "403"], [op |-> "flush", arg |-> ""],
                     [op |-> "close", arg |-> ""] >>

=============================================================================
